---- MODULE Spec2Model ----
(***************************************************************************)
(* Model of the frete-yampi backend: the Shopify App-Proxy signature       *)
(* verifier (verifyProxy), the Yampi SKU catalog (YampiSkuMap), the quote  *)
(* cache and the App-Proxy quote handler, in its three source variants.    *)
(*                                                                         *)
(* JavaScript strings are sequences of one-character strings, so that      *)
(* trim, split, replace, toUpperCase and the default sort are computed on  *)
(* the characters.  JavaScript numbers are records [k, n]: k = "num" with  *)
(* the integer n, or k = "NaN" / "Infinity"; undefined is Undefined.       *)
(***************************************************************************)
EXTENDS Integers, Sequences, FiniteSets, TLC

VARIABLES
    vQuery,     \* verifyShopifyProxy: the `query` argument of the call
    vSecret,    \* verifyShopifyProxy: the `secret` argument of the call
    vResult,    \* verifyShopifyProxy: the value returned by the last call
    vPrev,      \* the call made before one parameter value was changed
    vPc,        \* "call", then "returned", then "changed"
    map,        \* YampiSkuMap.map: SKU text -> SKU id
    timer,      \* YampiSkuMap.timer: 0 for null, else the timer last set
    timers,     \* the state of each setTimeout timer
    runs,       \* the hydrateOnce calls suspended at `await yampiGet(...)`
    boot,       \* the steps bootstrap() has done so far
    stopped,    \* stopAutoRefresh() has been called
    op,         \* the catalog operation of the last step and what it did
    hObs,       \* the writes of a manual and a scheduled hydration that overlap
    states,     \* states: shop -> the state /install issued for it
    issued,     \* how many states /install has issued
    callbacks,  \* the /auth/callback handlers suspended at `await fetch(...)`
    redirects,  \* per state, how many callbacks ended in the redirect to the app
    oauthOp,    \* the install or callback step made last and its response
    lkInput,    \* getId: the skuText argument of the call
    lkResult,   \* getId: the value returned by the call
    lkBefore,   \* the map as it was when getId was called
    lkPc,       \* "call", then "returned"
    kA,         \* makeCacheKey: the normalized tuple of one request
    kB,         \* makeCacheKey: the normalized tuple of another request
    kKeyA,      \* the key made for kA
    kKeyB,      \* the key made for kB
    kPc,        \* "call", then "returned"
    variant,    \* which of the three handler files is the running server
    disableCheck, \* DISABLE_PROXY_SIGNATURE_CHECK === 'true'
    proxyPath,  \* "default" when proxyPath is /apps/shipping-quotes, else "custom"
    quoteCache, \* quoteCache: key -> { at, data }
    now,        \* Date.now(), in ticks
    inflight,   \* the requests suspended at `await calcularFreteYampi(...)`
    ended,      \* the request whose handler ended in the last step, if one did
    lastRead    \* the quote cache lookup made in the last step, if one was made

verifyVars == <<vQuery, vSecret, vResult, vPrev, vPc>>

lookupVars == <<lkInput, lkResult, lkBefore, lkPc>>

keyVars == <<kA, kB, kKeyA, kKeyB, kPc>>

catalogVars == <<map, timer, timers, runs, boot, stopped, op, hObs>>

oauthVars == <<states, issued, callbacks, redirects, oauthOp>>

configVars == <<variant, disableCheck, proxyPath>>

pipeVars == <<configVars, quoteCache, now, inflight, ended, lastRead>>

vars == <<verifyVars, lookupVars, keyVars, catalogVars, oauthVars, pipeVars>>

(***************************************************************************)
(* Strings                                                                 *)
(***************************************************************************)

Digits == <<"0", "1", "2", "3", "4", "5", "6", "7", "8", "9">>

LowerLetters == <<"a", "b", "c", "d", "e", "f", "h", "i", "k", "n", "o", "p", "q", "s", "t", "u", "y">>

UpperLetters == <<"A", "B", "C", "D", "E", "F", "H", "I", "K", "N", "O", "P", "Q", "S", "T", "U", "Y">>

\* UTF-16 code units of the characters of the model's alphabet.
LowerCodes == <<97, 98, 99, 100, 101, 102, 104, 105, 107, 110, 111, 112, 113, 115, 116, 117, 121>>

IndexOf(seq, c) ==
    CHOOSE i \in 1..Len(seq) : seq[i] = c

InSeq(seq, c) ==
    \E i \in 1..Len(seq) : seq[i] = c

CodeUnit(c) ==
    IF InSeq(Digits, c) THEN 47 + IndexOf(Digits, c)
    ELSE IF InSeq(LowerLetters, c) THEN LowerCodes[IndexOf(LowerLetters, c)]
    ELSE IF InSeq(UpperLetters, c) THEN LowerCodes[IndexOf(UpperLetters, c)] - 32
    ELSE CASE c = " " -> 32
           [] c = "&" -> 38
           [] c = "," -> 44
           [] c = "-" -> 45
           [] c = "=" -> 61
           [] c = "_" -> 95

\* a < b for strings, as the default Array.prototype.sort compares them:
\* by code units, a proper prefix first.
RECURSIVE StrLess(_, _)
StrLess(a, b) ==
    IF b = <<>> THEN FALSE
    ELSE IF a = <<>> THEN TRUE
    ELSE IF CodeUnit(Head(a)) # CodeUnit(Head(b)) THEN CodeUnit(Head(a)) < CodeUnit(Head(b))
    ELSE StrLess(Tail(a), Tail(b))

IsSpace(c) == c = " "

\* String.prototype.trim()
RECURSIVE Trim(_)
Trim(s) ==
    IF s = <<>> THEN s
    ELSE IF IsSpace(Head(s)) THEN Trim(Tail(s))
    ELSE IF IsSpace(s[Len(s)]) THEN Trim(SubSeq(s, 1, Len(s) - 1))
    ELSE s

\* String.prototype.toUpperCase() / toLowerCase()
ToUpperCase(s) ==
    [i \in 1..Len(s) |->
        IF InSeq(LowerLetters, s[i]) THEN UpperLetters[IndexOf(LowerLetters, s[i])] ELSE s[i]]

ToLowerCase(s) ==
    [i \in 1..Len(s) |->
        IF InSeq(UpperLetters, s[i]) THEN LowerLetters[IndexOf(UpperLetters, s[i])] ELSE s[i]]

RECURSIVE Join(_, _)
Join(parts, sep) ==
    IF parts = <<>> THEN <<>>
    ELSE IF Len(parts) = 1 THEN parts[1]
    ELSE parts[1] \o sep \o Join(Tail(parts), sep)

(***************************************************************************)
(* Parameter values (req.query / req.body): a string or an array of        *)
(* strings; a parameter that is not sent is not in the mapping's domain.   *)
(* A hex digest is a string that equals only the same digest.              *)
(***************************************************************************)

Str(s) == [t |-> "str", v |-> s]

Arr(a) == [t |-> "arr", v |-> a]

\* crypto.createHmac('sha256', secret).update(base).digest('hex'): one
\* lowercase hex string per (secret, base), different for different pairs.
Hmac(secret, base) == [t |-> "hex", v |-> <<secret, base>>]

\* `${value}`: a string is itself, an array is its elements joined by ",".
TemplateString(val) ==
    IF val.t = "arr" THEN Join(val.v, <<",">>) ELSE val.v

SIGNATURE == <<"s", "i", "g", "n", "a", "t", "u", "r", "e">>

\* Array.prototype.sort() with no comparator, on the keys of an object.
RECURSIVE SortKeys(_)
SortKeys(keys) ==
    IF keys = {} THEN <<>>
    ELSE LET k == CHOOSE x \in keys : TRUE
             rest == SortKeys(keys \ {k})
             before == SelectSeq(rest, LAMBDA y : StrLess(y, k))
             after == SelectSeq(rest, LAMBDA y : ~StrLess(y, k))
         IN before \o <<k>> \o after

\* Object.keys(params).sort().map((k) => `${k}=${params[k]}`).join('')
ProxyBaseAmpersand(params) ==
    LET keys == SortKeys(DOMAIN params)
    IN Join([i \in 1..Len(keys) |-> keys[i] \o <<"=">> \o TemplateString(params[keys[i]])], <<"&">>)

ProxyBase(params) ==
    LET keys == SortKeys(DOMAIN params)
    IN Join([i \in 1..Len(keys) |-> keys[i] \o <<"=">> \o TemplateString(params[keys[i]])], <<>>)

\* !value for a parameter: it is not sent, or it is the empty string.
Falsy(q, name) ==
    name \notin DOMAIN q \/ q[name] = Str(<<>>)

WithoutKey(q, name) ==
    [k \in DOMAIN q \ {name} |-> q[k]]

verifyShopifyProxy(query, secret) ==
    IF secret = "" THEN FALSE
    ELSE IF Falsy(query, SIGNATURE) THEN FALSE
    ELSE Hmac(secret, ProxyBase(WithoutKey(query, SIGNATURE))) = query[SIGNATURE]

(***************************************************************************)
(* JavaScript numbers and undefined                                        *)
(***************************************************************************)

Num(i) == [k |-> "num", n |-> i]

NaN == [k |-> "NaN", n |-> 0]

Infinity == [k |-> "Infinity", n |-> 0]

Undefined == [k |-> "undefined", n |-> 0]

\* !x for a number or undefined
NotTruthy(x) == x = Undefined \/ x = NaN \/ x = Num(0)

(***************************************************************************)
(* YampiSkuMap.getId                                                       *)
(***************************************************************************)

\* Map.prototype.get
MapGet(m, key) == IF key \in DOMAIN m THEN m[key] ELSE Undefined

\* a ?? b
Coalesce(a, b) == IF a = Undefined THEN b ELSE a

getIdLowerFirst(m, skuText) ==
    IF skuText = <<>> THEN Undefined
    ELSE LET key == Trim(skuText)
         IN Coalesce(Coalesce(MapGet(m, key), MapGet(m, ToLowerCase(key))), MapGet(m, ToUpperCase(key)))

getId(m, skuText) ==
    IF skuText = <<>> THEN Undefined
    ELSE LET key == Trim(skuText)
         IN Coalesce(Coalesce(MapGet(m, key), MapGet(m, ToUpperCase(key))), MapGet(m, ToLowerCase(key)))

(***************************************************************************)
(* Input parsing of the quote handler                                      *)
(***************************************************************************)

CEP == <<"c", "e", "p">>

SKUS == <<"s", "k", "u", "s">>

SKUS_IDS == <<"s", "k", "u", "s", "_", "i", "d", "s">>

QUANTITIES == <<"q", "u", "a", "n", "t", "i", "t", "i", "e", "s">>

TOTAL == <<"t", "o", "t", "a", "l">>

SHOP == <<"s", "h", "o", "p">>

IsDigit(c) == InSeq(Digits, c)

\* /^\d+$/.test(s)
AllDigits(s) == s # <<>> /\ \A i \in 1..Len(s) : IsDigit(s[i])

\* s.replace(/\D/g, '')
StripNonDigits(s) == SelectSeq(s, IsDigit)

RECURSIVE DigitsValue(_)
DigitsValue(s) ==
    IF s = <<>> THEN 0
    ELSE 10 * DigitsValue(SubSeq(s, 1, Len(s) - 1)) + (IndexOf(Digits, s[Len(s)]) - 1)

\* Number(s) for a string s made of spaces, digits, "-" and letters (no ".",
\* no exponent, no radix prefix in the model's inputs).
NumberOfString(s) ==
    LET t == Trim(s)
    IN IF t = <<>> THEN Num(0)
       ELSE IF AllDigits(t) THEN Num(DigitsValue(t))
       ELSE IF Head(t) = "-" /\ AllDigits(Tail(t)) THEN Num(0 - DigitsValue(Tail(t)))
       ELSE IF t = <<"I", "n", "f", "i", "n", "i", "t", "y">> THEN Infinity
       ELSE NaN

\* Number(v) for a parameter value: an array is converted through its string.
NumberOf(val) == NumberOfString(TemplateString(val))

\* s.split(',')
RECURSIVE SplitComma(_)
SplitComma(s) ==
    IF \A i \in 1..Len(s) : s[i] # ","
    THEN <<s>>
    ELSE LET i == CHOOSE j \in 1..Len(s) : s[j] = "," /\ \A h \in 1..(j - 1) : s[h] # ","
         IN <<SubSeq(s, 1, i - 1)>> \o SplitComma(SubSeq(s, i + 1, Len(s)))

\* toArr: an array as it is, [] for a missing value, else
\* String(v).split(',').map(s => s.trim()).filter(Boolean)
toArr(p, name) ==
    IF name \notin DOMAIN p THEN <<>>
    ELSE IF p[name].t = "arr" THEN p[name].v
    ELSE LET parts == SplitComma(p[name].v)
         IN SelectSeq([i \in 1..Len(parts) |-> Trim(parts[i])], LAMBDA x : x # <<>>)

\* String(p.cep || '').replace(/\D/g, '')
cepOf(p) ==
    IF Falsy(p, CEP) THEN <<>> ELSE StripNonDigits(TemplateString(p[CEP]))

\* p.total != null ? Number(p.total) : undefined
totalOf(p) ==
    IF TOTAL \in DOMAIN p THEN NumberOf(p[TOTAL]) ELSE Undefined

\* p.skus ?? p.skus_ids, then toArr
skusArrOf(p) ==
    IF SKUS \in DOMAIN p THEN toArr(p, SKUS) ELSE toArr(p, SKUS_IDS)

\* toArr(p.quantities).map(Number)
qtyArrOf(p) ==
    LET a == toArr(p, QUANTITIES) IN [i \in 1..Len(a) |-> NumberOfString(a[i])]

\* The loop that resolves the ids: [ok, ids, lookups, bad], where lookups are
\* the codes handed to skuMap.getId so far and bad is the code that stopped
\* the loop.
RECURSIVE ResolveFrom(_, _, _)
ResolveFrom(m, skusArr, acc) ==
    IF skusArr = <<>> THEN [acc EXCEPT !.ok = TRUE]
    ELSE LET s == Head(skusArr)
         IN IF AllDigits(s)
            THEN ResolveFrom(m, Tail(skusArr), [acc EXCEPT !.ids = Append(@, Num(DigitsValue(s)))])
            ELSE LET id == getId(m, s)
                     seen == [acc EXCEPT !.lookups = Append(@, s)]
                 IN IF NotTruthy(id)
                    THEN [seen EXCEPT !.bad = s]
                    ELSE ResolveFrom(m, Tail(skusArr), [seen EXCEPT !.ids = Append(@, id)])

resolveIds(m, skusArr) ==
    ResolveFrom(m, skusArr, [ok |-> FALSE, ids |-> <<>>, lookups |-> <<>>, bad |-> <<>>])

(***************************************************************************)
(* The quote cache                                                         *)
(***************************************************************************)

JsonNull == [k |-> "null", n |-> 0]

\* JSON.stringify of a number: NaN and Infinity are written as null.
JsonNumber(x) == IF x.k = "num" THEN x ELSE JsonNull

JsonNumbers(xs) == [i \in 1..Len(xs) |-> JsonNumber(xs[i])]

\* JSON.stringify of an object with a fixed list of fields is represented by
\* the values written for the fields, in that order; a field whose value is
\* undefined is not written.
JsonField(name, x) == IF x = Undefined THEN <<>> ELSE <<<<name, JsonNumber(x)>>>>

makeCacheKeyNoQtys(cep, ids, qtys, total) ==
    [cep |-> cep, ids |-> JsonNumbers(ids), qtys |-> <<>>, total |-> JsonField("total", total)]

\* JSON.stringify({ cep, ids, qtys, total })
makeCacheKey(cep, ids, qtys, total) ==
    [cep |-> cep, ids |-> JsonNumbers(ids), qtys |-> JsonNumbers(qtys), total |-> JsonField("total", total)]

\* const TTL = Number(CACHE_TTL_MS) || 300000, in ticks of the model's clock
TTL == 1

NullPayload == [shape |-> "null", id |-> 0]

NoEntry == [at |-> 0 - 1, data |-> NullPayload]

EntryOf(cache, key) == IF key \in DOMAIN cache THEN cache[key] ELSE NoEntry

getFromCacheEvictingOnHit(cache, key, t) ==
    IF key \notin DOMAIN cache THEN [data |-> NullPayload, cache |-> cache]
    ELSE [data |-> (IF t - cache[key].at > TTL THEN NullPayload ELSE cache[key].data),
          cache |-> [k \in DOMAIN cache \ {key} |-> cache[k]]]

\* getFromCache(key) of the first handler file: [data, cache], the value
\* returned and the cache it leaves.
getFromCache(cache, key, t) ==
    IF key \notin DOMAIN cache THEN [data |-> NullPayload, cache |-> cache]
    ELSE IF t - cache[key].at > TTL
         THEN [data |-> NullPayload, cache |-> [k \in DOMAIN cache \ {key} |-> cache[k]]]
         ELSE [data |-> cache[key].data, cache |-> cache]

\* The inline check of server.js and yampi.js:
\* cached && (Date.now() - cached.at) < ttl, then cached.data
cachedInline(cache, key, t) ==
    IF key \in DOMAIN cache /\ t - cache[key].at < TTL
    THEN [data |-> cache[key].data, cache |-> cache]
    ELSE [data |-> NullPayload, cache |-> cache]

\* quoteCache.set(key, { at: Date.now(), data })
setCache(cache, key, data, t) ==
    [k \in DOMAIN cache \cup {key} |-> IF k = key THEN [at |-> t, data |-> data] ELSE cache[k]]

(***************************************************************************)
(* calcularFreteYampi: the request sent to the Yampi quote API             *)
(***************************************************************************)

\* orderId: 129339217
ORDER_ID == 129339217

\* JSON.stringify({ zipcode, total, origin, utm_email, skus_ids, quantities,
\* order_id }) for calcularFreteYampi({ alias, zipcode, total, skusIds,
\* quantities, orderId }); utm_email is never given, so it is not written.
quoteBody(zipcode, total, skusIds, quantities, orderId) ==
    [zipcode |-> <<zipcode>>,
     total |-> JsonField("total", total),
     origin |-> "cart_drawer",
     skus_ids |-> <<JsonNumbers(skusIds)>>,
     quantities |-> <<JsonNumbers(quantities)>>,
     order_id |-> JsonField("order_id", orderId)]

\* The body of calcularFreteYampi(cep, skus, quantities, total, orderId): the
\* first argument is destructured, a string has none of the named properties,
\* and only the default origin is written.
quoteBodyPositional ==
    [zipcode |-> <<>>,
     total |-> <<>>,
     origin |-> "cart_drawer",
     skus_ids |-> <<>>,
     quantities |-> <<>>,
     order_id |-> <<>>]

NoTuple == [cep |-> <<>>, ids |-> <<>>, qtys |-> <<>>, total |-> Undefined]

NoKey == makeCacheKey(<<>>, <<>>, <<>>, Undefined)

\* No makeCacheKey call is being observed.
KeyOff ==
    /\ kA = NoTuple
    /\ kB = NoTuple
    /\ kKeyA = NoKey
    /\ kKeyB = NoKey
    /\ kPc = "off"

(***************************************************************************)
(* The App-Proxy quote handler                                             *)
(***************************************************************************)

Variants == {"part_001", "server", "yampi"}

\* process.env.SHOPIFY_API_SECRET
SHOPIFY_API_SECRET == "k1"

NoReq == [method |-> "none", query |-> <<>>, body |-> <<>>]

NoError == [msg |-> "", arg |-> <<>>]

\* What is known of one request: what it sent, how far the pipeline of 4.4
\* went, what the handler did on the way, and what it answered.
NewRec(req, route) ==
    [req |-> req, route |-> route, pc |-> "running",
     verify |-> "none", stage |-> "Unverified",
     cep |-> <<>>, skus |-> <<>>, qtys |-> <<>>, total |-> Undefined,
     lookups |-> <<>>, ids |-> <<>>, key |-> NoKey,
     reads |-> 0, evicted |-> 0,
     calls |-> 0, sent |-> <<>>, upstream |-> "none",
     writes |-> 0,
     status |-> 0, cached |-> FALSE, data |-> NullPayload, error |-> NoError]

NoRequest == [NewRec(NoReq, "none") EXCEPT !.pc = "none"]

\* return res.status(status).json({ error })
ErrorResponse(r, status, msg, arg) ==
    [r EXCEPT !.pc = "responded", !.status = status, !.error = [msg |-> msg, arg |-> arg]]

\* return res.json({ data }) or res.json({ data, cached: true })
DataResponse(r, data, cached) ==
    [r EXCEPT !.pc = "responded", !.status = 200, !.data = data, !.cached = cached]

\* The parameters the handler reads: req.query for a GET and req.body
\* otherwise; in yampi.js { ...req.query, ...req.body }.
ParamsOf(v, req) ==
    IF v = "yampi" THEN req.body @@ req.query
    ELSE IF req.method = "GET" THEN req.query
    ELSE req.body

\* if (cached) of the first handler file; the inline check of the two others
\* yields the stored array or nothing.
Truthy(data) == data.shape \notin {"null", "falsy"}

cacheLookup(v, cache, key, t) ==
    IF v = "part_001" THEN getFromCache(cache, key, t) ELSE cachedInline(cache, key, t)

\* const data = Array.isArray(raw) ? raw
\*     : (raw && typeof raw === 'object' ? Object.values(raw) : [])
\* in server.js and yampi.js; the first handler file stores raw as it is.
normalizeData(v, raw) ==
    IF v = "part_001" \/ raw.shape = "array" THEN raw
    ELSE IF raw.shape = "object" THEN [shape |-> "array", id |-> raw.id]
    ELSE [shape |-> "array", id |-> 0]

\* The handler's steps.  Each takes the request's record and returns it as
\* the step leaves it; a step does nothing once the handler has answered.

\* 1) if (DISABLE_PROXY_SIGNATURE_CHECK !== 'true') { verifyShopifyProxy ... }
stepVerify(disabled, r) ==
    IF ~disabled /\ ~verifyShopifyProxy(r.req.query, SHOPIFY_API_SECRET)
    THEN ErrorResponse([r EXCEPT !.verify = "failed"], 401, "Invalid proxy signature", <<>>)
    ELSE [r EXCEPT !.verify = IF disabled THEN "skipped" ELSE "passed", !.stage = "Verified"]

\* 2) const cep = ...; if (cep.length !== 8) return 400
readCep(v, r) ==
    IF r.pc # "running" THEN r ELSE [r EXCEPT !.cep = cepOf(ParamsOf(v, r.req))]

stepCep(v, r) ==
    IF r.pc # "running" THEN r
    ELSE IF Len(r.cep) # 8 THEN ErrorResponse(r, 400, "CEP invalido", <<>>)
    ELSE r

\* const total = ...; const skusArr = toArr(...); const qtyArr = toArr(...).map(Number)
readItems(v, r) ==
    IF r.pc # "running" THEN r
    ELSE [r EXCEPT !.total = totalOf(ParamsOf(v, r.req)),
                   !.skus = skusArrOf(ParamsOf(v, r.req)),
                   !.qtys = qtyArrOf(ParamsOf(v, r.req))]

\* if (!skusArr.length || skusArr.length !== qtyArr.length) return 400
stepItems(r) ==
    IF r.pc # "running" THEN r
    ELSE IF r.skus = <<>> \/ Len(r.skus) # Len(r.qtys)
    THEN ErrorResponse(r, 400, "Itens ausentes ou mal formatados", <<>>)
    ELSE [r EXCEPT !.stage = "Normalized"]

\* 3) for (const s of skusArr) { ... }
resolved(r, res) ==
    IF res.ok
    THEN [r EXCEPT !.lookups = res.lookups, !.ids = res.ids, !.stage = "Resolved"]
    ELSE ErrorResponse([r EXCEPT !.lookups = res.lookups], 400, "SKU sem ID cadastrado na Yampi",
                       res.bad)

stepResolve(m, r) ==
    IF r.pc # "running" THEN r ELSE resolved(r, resolveIds(m, r.skus))

\* 4) const key = makeCacheKey({ cep, ids, qtys: qtyArr, total })
stepKey(r) ==
    IF r.pc # "running" THEN r
    ELSE [r EXCEPT !.key = makeCacheKey(r.cep, r.ids, r.qtys, r.total)]

\* const cached = getFromCache(key); if (cached) return res.json({ data:
\* cached, cached: true }); else 5) await calcularFreteYampi({ ... }).
\* c is what the lookup of the cache gave: [data, cache].
afterLookup(r, c, cache) ==
    IF Truthy(c.data)
    THEN DataResponse([r EXCEPT !.stage = "CacheHit", !.reads = 1,
                                !.evicted = IF c.cache = cache THEN 0 ELSE 1],
                      c.data, TRUE)
    ELSE [r EXCEPT !.stage = "UpstreamCalled", !.pc = "awaiting", !.reads = 1,
                   !.evicted = IF c.cache = cache THEN 0 ELSE 1,
                   !.calls = 1,
                   !.sent = <<quoteBody(r.cep, r.total, r.ids, r.qtys, Num(ORDER_ID))>>]

stepCache(v, cache, t, r) ==
    IF r.pc # "running" THEN r
    ELSE afterLookup(r, cacheLookup(v, cache, r.key, t), cache)

\* The cache as the handler's lookup leaves it.
cacheAfterLookup(v, cache, t, r) ==
    IF r.reads = 0 THEN cache ELSE cacheLookup(v, cache, r.key, t).cache

\* Steps 1 to 4 up to the key: they read the request and the catalog only.
proxyFront(v, disabled, m, req) ==
    stepKey(stepResolve(m, stepItems(readItems(v, stepCep(v, readCep(v,
        stepVerify(disabled, NewRec(req, "proxy"))))))))

\* The outcomes of one call of the quote API: a 2xx response whose JSON
\* yields json?.data ?? json, or a response that is not ok.
RawPayloads == {[shape |-> "array", id |-> 1], [shape |-> "object", id |-> 2]}

UpstreamOutcomes ==
    {[ok |-> TRUE, data |-> d, status |-> "200", text |-> ""] : d \in RawPayloads}
        \cup {[ok |-> FALSE, data |-> NullPayload, status |-> "503", text |-> "unavailable"]}

proxyResumeRetrying(v, cache, t, r, o) ==
    IF o.ok
    THEN [rec |-> DataResponse([r EXCEPT !.upstream = "ok", !.writes = 1], normalizeData(v, o.data), FALSE),
          cache |-> setCache(cache, r.key, normalizeData(v, o.data), t)]
    ELSE [rec |-> ErrorResponse([r EXCEPT !.upstream = "failed", !.calls = @ + 1,
                                          !.sent = @ \o @],
                                500, "Yampi", <<o.status, o.text>>),
          cache |-> cache]

proxyResumeStoringFailure(v, cache, t, r, o) ==
    IF o.ok
    THEN [rec |-> DataResponse([r EXCEPT !.upstream = "ok", !.writes = 1], normalizeData(v, o.data), FALSE),
          cache |-> setCache(cache, r.key, normalizeData(v, o.data), t)]
    ELSE [rec |-> ErrorResponse([r EXCEPT !.upstream = "failed"], 500, "Yampi", <<o.status, o.text>>),
          cache |-> setCache(cache, r.key, NullPayload, t)]

\* app.all(proxyPath, ...) from the return of calcularFreteYampi on.  A
\* response that is not ok makes calcularFreteYampi throw
\* new Error(`Yampi ${res.status}: ${text}`), which the handler catches:
\* res.status(500).json({ error: e.message }).
proxyResume(v, cache, t, r, o) ==
    IF o.ok
    THEN LET data == normalizeData(v, o.data)
         IN [rec |-> DataResponse([r EXCEPT !.upstream = "ok", !.writes = 1], data, FALSE),
             cache |-> setCache(cache, r.key, data, t)]
    ELSE [rec |-> ErrorResponse([r EXCEPT !.upstream = "failed"], 500,
                                "Yampi", <<o.status, o.text>>),
          cache |-> cache]

\* app.all('/apps/shipping-quotes', ...) of server.js and yampi.js, which is
\* registered before app.all(proxyPath, ...) and answers every request to
\* that path: it verifies nothing and calls
\* calcularFreteYampi(cep, skus, quantities, total, orderId).  The call throws
\* before any request is sent when req.query.cep is undefined (it cannot be
\* destructured) or when skus or quantities is an array (no split method).
shadowThrows(req) ==
    \/ CEP \notin DOMAIN req.query
    \/ SKUS \in DOMAIN req.query /\ req.query[SKUS].t = "arr"
    \/ QUANTITIES \in DOMAIN req.query /\ req.query[QUANTITIES].t = "arr"

\* An error that leaves the async handler: yampi.js catches it and answers
\* 500; server.js has no try/catch, the rejection is unhandled and the
\* request gets no response.
shadowFailure(v, r, msg, arg) ==
    IF v = "yampi" THEN ErrorResponse(r, 500, msg, arg) ELSE [r EXCEPT !.pc = "unanswered"]

shadowHandler(v, req) ==
    LET r0 == NewRec(req, "shadow")
    IN IF shadowThrows(req)
       THEN shadowFailure(v, r0, "TypeError", <<>>)
       ELSE [r0 EXCEPT !.pc = "awaiting", !.calls = 1, !.sent = <<quoteBodyPositional>>]

shadowResume(v, r, o) ==
    IF o.ok
    THEN [r EXCEPT !.pc = "responded", !.upstream = "ok", !.status = 200, !.data = o.data]
    ELSE shadowFailure(v, [r EXCEPT !.upstream = "failed"], "Yampi", <<o.status, o.text>>)

\* Express hands a request to the first handler registered for its path.
Shadowed == variant \in {"server", "yampi"} /\ proxyPath = "default"

\* The lookup of the quote cache a handler made: the key, the entry the
\* cache held for it, the time, and the payload the lookup yielded.
NoRead == [key |-> NoKey, entry |-> NoEntry, at |-> 0, got |-> NullPayload, made |-> FALSE]

ReadBy(v, cache, t, r) ==
    IF r.reads = 0 THEN NoRead
    ELSE [key |-> r.key, entry |-> EntryOf(cache, r.key), at |-> t,
          got |-> cacheLookup(v, cache, r.key, t).data, made |-> TRUE]

\* The quote handler is not running.
PipeOff ==
    /\ variant = "part_001"
    /\ disableCheck = FALSE
    /\ proxyPath = "default"
    /\ quoteCache = <<>>
    /\ now = 0
    /\ inflight = {}
    /\ ended = NoRequest
    /\ lastRead = NoRead

(***************************************************************************)
(* YampiSkuMap: seed load, hydration from the catalog API, refresh timer   *)
(***************************************************************************)

\* JSON values read from the seed file and from the catalog API: a number,
\* a string (Str) or null / a property that is not there.
JNum(i) == [t |-> "num", v |-> i]

JNull == [t |-> "null", v |-> 0]

\* !x for a JSON value
JFalsy(x) ==
    \/ x.t = "null"
    \/ x.t = "num" /\ x.v = 0
    \/ x.t = "str" /\ x.v = <<>>

\* String(x) for a JSON string
StringOf(x) == x.v

\* Number(x) for a JSON value
NumberOfJson(x) ==
    IF x.t = "num" THEN Num(x.v)
    ELSE IF x.t = "null" THEN Num(0)
    ELSE NumberOfString(x.v)

\* this.map.set(key, id)
MapSet(m, key, id) == [k \in DOMAIN m \cup {key} |-> IF k = key THEN id ELSE m[k]]

\* The writes <<key, id>> applied to the map in order.
RECURSIVE MapSetAll(_, _)
MapSetAll(m, writes) ==
    IF writes = <<>> THEN m
    ELSE MapSetAll(MapSet(m, Head(writes)[1], Head(writes)[2]), Tail(writes))

\* raw.forEach((r) => { if (r && r.sku && r.id) this.map.set(...) }): the
\* writes of a seed file that holds an array of records.
RECURSIVE seedArrayWrites(_)
seedArrayWrites(recs) ==
    IF recs = <<>> THEN <<>>
    ELSE LET r == Head(recs)
         IN (IF r.t # "null" /\ ~JFalsy(r.sku) /\ ~JFalsy(r.id)
             THEN <<<<Trim(StringOf(r.sku)), NumberOfJson(r.id)>>>>
             ELSE <<>>) \o seedArrayWrites(Tail(recs))

\* for (const [sku, id] of Object.entries(raw)) this.map.set(...): the writes
\* of a seed file that holds an object.
seedObjectWrites(entries) ==
    [i \in 1..Len(entries) |-> <<Trim(entries[i][1]), NumberOfJson(entries[i][2])>>]

\* Step 1 of bootstrap(): the writes of the seed file, none when there is no
\* file or when reading or parsing it throws.
seedWrites(seed) ==
    IF seed.form = "array" THEN seedArrayWrites(seed.recs)
    ELSE IF seed.form = "object" THEN seedObjectWrites(seed.recs)
    ELSE <<>>

\* const skus = (p?.skus?.data) || p?.skus || []; if (Array.isArray(skus))
skusOf(p) == IF p.shape \in {"data", "array"} THEN p.skus ELSE <<>>

\* The three writes of one SKU record, none when it has no sku or no id.
skuWrites(s) ==
    IF ~JFalsy(s.sku) /\ s.id.t # "null"
    THEN LET key == Trim(StringOf(s.sku))
             id == NumberOfJson(s.id)
         IN <<<<key, id>>, <<ToUpperCase(key), id>>, <<ToLowerCase(key), id>>>>
    ELSE <<>>

RECURSIVE skusWrites(_)
skusWrites(skus) ==
    IF skus = <<>> THEN <<>> ELSE skuWrites(Head(skus)) \o skusWrites(Tail(skus))

\* for (const p of list) ...: the writes of one page, in order.
RECURSIVE listWrites(_)
listWrites(list) ==
    IF list = <<>> THEN <<>> ELSE skusWrites(skusOf(Head(list))) \o listWrites(Tail(list))

\* const list = resp?.data || []
listOf(resp) == IF JFalsy(resp.data) THEN <<>> ELSE resp.data.v

\* Number(resp?.meta?.pagination?.total_pages || page)
totalPagesOf(resp, page) ==
    IF JFalsy(resp.total_pages) THEN Num(page) ELSE NumberOfJson(resp.total_pages)

\* page >= totalPages
PageAtLeast(page, totalPages) == totalPages.k = "num" /\ page >= totalPages.n

hydrateBreaksNoCap(run, resp) ==
    \/ Len(listOf(resp)) = 0
    \/ PageAtLeast(run.page, totalPagesOf(resp, run.page))

\* if (!list.length || page >= totalPages || page - pageStart + 1 >= maxPages) break
hydrateBreaks(run, resp) ==
    \/ Len(listOf(resp)) = 0
    \/ PageAtLeast(run.page, totalPagesOf(resp, run.page))
    \/ run.page - run.pageStart + 1 >= run.maxPages

NoRun == [pageStart |-> 0, maxPages |-> 0, page |-> 0, total |-> 0, requests |-> 0]

\* hydrateOnce({ pageStart, maxPages }) up to its first `await yampiGet(...)`.
hydrateOnce(pageStart, maxPages) ==
    [pageStart |-> pageStart, maxPages |-> maxPages, page |-> pageStart, total |-> 0,
     requests |-> 1]

\* hydrateOnce({ pageStart = 1, ... })
PAGE_START == 1

\* The page cap of hydrateOnce({ maxPages = 1000 }), scaled down.
MaxPages == 2

\* What the catalog API answers a page request with.
SkuAb1 == [sku |-> Str(<<" ", "A", "b">>), id |-> JNum(1)]

SkuAB2 == [sku |-> Str(<<"A", "B">>), id |-> Str(<<"2">>)]

SkuAbX == [sku |-> Str(<<"A", "b">>), id |-> Str(<<"x">>)]

SkuNoId == [sku |-> Str(<<"A", "b">>), id |-> JNull]

SkuNoSku == [sku |-> JNull, id |-> JNum(2)]

\* data of a page: products with their SKUs under skus.data or skus.
PageLists ==
    { Arr(<<>>),
      Arr(<<[shape |-> "data", skus |-> <<SkuAb1>>]>>),
      Arr(<<[shape |-> "array", skus |-> <<SkuAB2>>]>>),
      Arr(<<[shape |-> "other", skus |-> <<>>],
            [shape |-> "data", skus |-> <<SkuNoId, SkuNoSku, SkuAbX>>]>>) }

\* meta.pagination.total_pages of a page: none, one, more than the cap, text.
TotalPages == {JNull, JNum(1), JNum(MaxPages + 1), Str(<<"x">>)}

\* yampiGet threw.
NoResp == [ok |-> FALSE, data |-> JNull, total_pages |-> JNull]

\* What yampiGet gives for a page request: a throw or the parsed body.
PageResponses ==
    {NoResp}
        \cup {[ok |-> TRUE, data |-> d, total_pages |-> tp] :
                 d \in PageLists \cup {JNull}, tp \in TotalPages}

\* The writes of each page the catalog API can answer with.
pageWritesTable == [resp \in PageResponses |-> listWrites(listOf(resp))]

hydrateResumeClearing(m, run, resp) ==
    IF ~resp.ok
    THEN [map |-> <<>>, run |-> NoRun, status |-> "threw", wrote |-> <<>>, total |-> run.total]
    ELSE LET writes == pageWritesTable[resp]
             total == run.total + (Len(writes) \div 3)
         IN IF hydrateBreaks(run, resp)
            THEN [map |-> MapSetAll(m, writes), run |-> NoRun, status |-> "returned",
                  wrote |-> writes, total |-> total]
            ELSE [map |-> MapSetAll(m, writes),
                  run |-> [run EXCEPT !.page = @ + 1, !.total = total, !.requests = @ + 1],
                  status |-> "awaiting", wrote |-> writes, total |-> total]

\* hydrateOnce from the return of yampiGet to the next `await`, to its return
\* or to its throw when the page request failed.
hydrateResume(m, run, resp) ==
    IF ~resp.ok
    THEN [map |-> m, run |-> NoRun, status |-> "threw", wrote |-> <<>>, total |-> run.total]
    ELSE LET writes == pageWritesTable[resp]
             total == run.total + (Len(writes) \div 3)
         IN IF hydrateBreaks(run, resp)
            THEN [map |-> MapSetAll(m, writes), run |-> NoRun, status |-> "returned",
                  wrote |-> writes, total |-> total]
            ELSE [map |-> MapSetAll(m, writes),
                  run |-> [run EXCEPT !.page = @ + 1, !.total = total, !.requests = @ + 1],
                  status |-> "awaiting", wrote |-> writes, total |-> total]

\* The timers setTimeout can hold at once.
MaxTimers == 2

TimerIds == 1..MaxTimers

FreeTimers(ts) == {id \in TimerIds : ts[id] = "free"}

\* setTimeout(run, this.refreshMs): a new pending timer.
setTimeout(ts) ==
    LET id == CHOOSE i \in FreeTimers(ts) : \A j \in FreeTimers(ts) : i <= j
    IN [id |-> id, timers |-> [ts EXCEPT ![id] = "pending"]]

\* clearTimeout(t): a pending timer is cancelled, any other is left as it is.
clearTimeout(ts, id) == IF ts[id] = "pending" THEN [ts EXCEPT ![id] = "cleared"] ELSE ts

\* if (!this.timer) this.timer = setTimeout(run, this.refreshMs)
startAutoRefreshAlways(ref, ts) ==
    [timer |-> setTimeout(ts).id, timers |-> setTimeout(ts).timers]

startAutoRefresh(ref, ts) ==
    IF ref = 0
    THEN [timer |-> setTimeout(ts).id, timers |-> setTimeout(ts).timers]
    ELSE [timer |-> ref, timers |-> ts]

\* stopAutoRefresh() { if (this.timer) clearTimeout(this.timer); }
stopAutoRefreshNothing(ref, ts) == ts

stopAutoRefresh(ref, ts) == IF ref # 0 THEN clearTimeout(ts, ref) ELSE ts

runFinallyNotArming(ts, id) == [timer |-> id, timers |-> [ts EXCEPT ![id] = "free"]]

\* finally { this.timer = setTimeout(run, this.refreshMs); } of the timer
\* callback whose timer was `id`: that timer is done with.
runFinally(ts, id) ==
    LET released == [ts EXCEPT ![id] = "free"]
    IN [timer |-> setTimeout(released).id, timers |-> setTimeout(released).timers]

NoRuns == [boot |-> NoRun, manual |-> NoRun, tick |-> [id \in TimerIds |-> NoRun]]

TicksInFlight(rs) == {id \in TimerIds : rs.tick[id] # NoRun}

NoOp == [name |-> "none", who |-> "none", status |-> "none", raised |-> FALSE,
         wrote |-> <<>>, total |-> 0, run |-> NoRun, resp |-> NoResp]

\* What an operation did: its outcome, whether it raised to its caller, the
\* writes it made, and for a page request that returned, the hydrateOnce call
\* as it was and the response.
OpOf(name, who, status, raised, wrote, total) ==
    [name |-> name, who |-> who, status |-> status, raised |-> raised,
     wrote |-> wrote, total |-> total, run |-> NoRun, resp |-> NoResp]

PageOp(who, raised, res, run, resp) ==
    [name |-> "page", who |-> who, status |-> res.status, raised |-> raised,
     wrote |-> res.wrote, total |-> res.total, run |-> run, resp |-> resp]

\* try { await this.hydrateOnce() } catch (e) { console.warn(...) }
\* this.startAutoRefresh(): what bootstrap does once hydrateOnce has ended.
bootstrapAfterHydrateUncaught(ref, ts, status) ==
    IF status = "threw"
    THEN [timer |-> ref, timers |-> ts, raised |-> TRUE]
    ELSE [timer |-> startAutoRefresh(ref, ts).timer,
          timers |-> startAutoRefresh(ref, ts).timers, raised |-> FALSE]

bootstrapAfterHydrate(ref, ts, status) ==
    [timer |-> startAutoRefresh(ref, ts).timer,
     timers |-> startAutoRefresh(ref, ts).timers, raised |-> FALSE]

NoObs == [manual |-> <<>>, tick |-> <<>>, overlap |-> FALSE, done |-> {}]

\* No hydration, timer or bootstrap is being observed.
RefreshOff ==
    /\ timer = 0
    /\ timers = [id \in TimerIds |-> "free"]
    /\ runs = NoRuns
    /\ boot = <<>>
    /\ stopped = FALSE
    /\ op = NoOp
    /\ hObs = NoObs

(***************************************************************************)
(* The installation flow of server.js and yampi.js: /install issues a      *)
(* state for a shop, /auth/callback checks it, exchanges the code for a    *)
(* token and redirects to the app.                                         *)
(***************************************************************************)

HMAC == <<"h", "m", "a", "c">>

CODE == <<"c", "o", "d", "e">>

STATE_PARAM == <<"s", "t", "a", "t", "e">>

MYSHOPIFY == <<".", "m", "y", "s", "h", "o", "p", "i", "f", "y", ".", "c", "o", "m">>

\* function isShopDomain(v) { return /\.(myshopify\.com)$/i.test(v); }
isShopDomain(v) ==
    /\ Len(v) >= Len(MYSHOPIFY)
    /\ ToLowerCase(SubSeq(v, Len(v) - Len(MYSHOPIFY) + 1, Len(v))) = MYSHOPIFY

\* Object.keys(rest).sort(...).map((k) => `${k}=${rest[k]}`).join('&')
OAuthMessage(rest) ==
    LET keys == SortKeys(DOMAIN rest)
    IN Join([i \in 1..Len(keys) |-> keys[i] \o <<"=">> \o TemplateString(rest[keys[i]])], <<"&">>)

\* const { hmac, signature, ...rest } = query; ...; return digest === hmac
verifyOAuthHmac(query, secret) ==
    /\ HMAC \in DOMAIN query
    /\ Hmac(secret, OAuthMessage(WithoutKey(WithoutKey(query, HMAC), SIGNATURE))) = query[HMAC]

\* crypto.randomBytes(16).toString('hex'): the n-th state issued differs from
\* the ones issued before it.
randomState(n) == <<"r", Digits[n + 1]>>

NoCallback == [shop |-> <<>>, state |-> <<>>, pc |-> "none"]

OAuthResponse(name, status, shop, state) ==
    [name |-> name, status |-> status, shop |-> shop, state |-> state]

NoOAuthOp == OAuthResponse("none", 0, <<>>, <<>>)

\* app.get('/install'): [states, issued, res]
install(sts, n, query) ==
    LET shop == ToLowerCase(IF Falsy(query, SHOP) THEN <<>> ELSE query[SHOP].v)
    IN IF ~isShopDomain(shop)
       THEN [states |-> sts, issued |-> n, res |-> OAuthResponse("install", 400, shop, <<>>)]
       ELSE [states |-> MapSet(sts, shop, randomState(n)), issued |-> n + 1,
             res |-> OAuthResponse("install", 302, shop, randomState(n))]

\* app.get('/auth/callback') up to `await fetch(...)`: the response, or the
\* handler suspended at the token exchange.
callbackFront(sts, query, secret) ==
    IF Falsy(query, SHOP) \/ Falsy(query, CODE) \/ Falsy(query, HMAC)
    THEN [cb |-> NoCallback, res |-> OAuthResponse("callback", 400, <<>>, <<>>)]
    ELSE IF ~verifyOAuthHmac(query, secret)
    THEN [cb |-> NoCallback, res |-> OAuthResponse("callback", 401, query[SHOP].v, <<>>)]
    ELSE IF \/ query[SHOP].v \notin DOMAIN sts
            \/ STATE_PARAM \notin DOMAIN query
            \/ sts[query[SHOP].v] # query[STATE_PARAM].v
    THEN [cb |-> NoCallback, res |-> OAuthResponse("callback", 401, query[SHOP].v, <<>>)]
    ELSE [cb |-> [shop |-> query[SHOP].v, state |-> query[STATE_PARAM].v, pc |-> "awaiting"],
          res |-> OAuthResponse("callback", 0, query[SHOP].v, query[STATE_PARAM].v)]

\* states.delete(shop)
MapDelete(m, key) == [k \in DOMAIN m \ {key} |-> m[k]]

\* The callback from the return of fetch to its response: [states, res]
callbackResume(sts, cb, outcome) ==
    IF outcome = "ok"
    THEN [states |-> MapDelete(sts, cb.shop),
          res |-> OAuthResponse("token", 302, cb.shop, cb.state)]
    ELSE [states |-> sts, res |-> OAuthResponse("token", 500, cb.shop, cb.state)]

MaxStates == 2

MaxCallbacks == 2

StateValues == {randomState(n) : n \in 0..MaxStates}

CallbackSlots == 1..MaxCallbacks

\* No installation is being observed.
OAuthOff ==
    /\ states = <<>>
    /\ issued = 0
    /\ callbacks = [i \in CallbackSlots |-> NoCallback]
    /\ redirects = [st \in StateValues |-> 0]
    /\ oauthOp = NoOAuthOp

\* new YampiSkuMap(...): this.map = new Map()
CatalogNew == map = <<>> /\ RefreshOff

\* No getId call is being observed.
LookupOff ==
    /\ lkInput = <<>>
    /\ lkResult = Undefined
    /\ lkBefore = <<>>
    /\ lkPc = "off"

(***************************************************************************)
(* SpecVerify: verifyShopifyProxy applied to bounded inputs.               *)
(***************************************************************************)

\* How many parameter names, besides `signature`, a verified query may carry.
MaxParams == 3

ParamNames ==
    <<<<"s", "k", "u", "s">>, <<"c", "e", "p">>, <<"s", "h", "o", "p">>, <<"s", "k", "u">>>>

ParamValues == {Str(<<"1">>), Arr(<<<<"2">>, <<"1">>>>)}

\* The values a changed parameter may take.
ChangedValues == ParamValues \cup {Str(<<"2">>), Str(<<"2", ",", "1">>)}

VerifyNames == {ParamNames[i] : i \in 1..(IF MaxParams < Len(ParamNames) THEN MaxParams ELSE Len(ParamNames))}

ParamMaps == UNION {[ks -> ParamValues] : ks \in SUBSET VerifyNames}

Secrets == {"", "k1", "k2"}

SignerSecrets == {"", "k1"}

\* The canonical string of 4.1: the remaining parameters in ascending order of
\* their keys, each as key=value, with nothing between the pairs.
RECURSIVE CanonicalBase(_)
CanonicalBase(params) ==
    IF DOMAIN params = {} THEN <<>>
    ELSE LET first == CHOOSE k \in DOMAIN params :
                          \A o \in DOMAIN params \ {k} : StrLess(k, o)
         IN first \o <<"=">> \o TemplateString(params[first])
                \o CanonicalBase(WithoutKey(params, first))

\* The signatures a caller may send: none, the empty string, or the digest
\* that a signer holding some secret computed for some parameters.
SignatureFields ==
    {<<>>, SIGNATURE :> Str(<<>>)}
        \cup {SIGNATURE :> Hmac(s, CanonicalBase(p)) : s \in SignerSecrets, p \in ParamMaps}

VerifyInputs == {p @@ sig : p \in ParamMaps, sig \in SignatureFields}

NoCall == [query |-> <<>>, result |-> FALSE]

\* No verifyShopifyProxy call is being observed.
VerifyOff ==
    /\ vQuery = <<>>
    /\ vSecret = ""
    /\ vResult = FALSE
    /\ vPrev = NoCall
    /\ vPc = "off"

InitVerify ==
    /\ vQuery \in VerifyInputs
    /\ vSecret \in Secrets
    /\ vResult = FALSE
    /\ vPrev = NoCall
    /\ vPc = "call"
    /\ LookupOff
    /\ KeyOff
    /\ OAuthOff
    /\ CatalogNew
    /\ PipeOff

\* verifyShopifyProxy(vQuery, vSecret) is called and returns.
VerifyCall ==
    /\ vPc = "call"
    /\ vResult' = verifyShopifyProxy(vQuery, vSecret)
    /\ vPc' = "returned"
    /\ UNCHANGED <<vQuery, vSecret, vPrev>>
    /\ UNCHANGED <<lookupVars, keyVars, oauthVars, catalogVars, pipeVars>>

\* The caller sends the query again with the text of one parameter value
\* changed (the signature kept), and it is verified with the same secret.
TamperCall ==
    /\ vPc = "returned"
    /\ \E k \in DOMAIN vQuery \ {SIGNATURE} : \E val \in ChangedValues :
          /\ TemplateString(val) # TemplateString(vQuery[k])
          /\ vQuery' = [vQuery EXCEPT ![k] = val]
          /\ vResult' = verifyShopifyProxy(vQuery', vSecret)
    /\ vPrev' = [query |-> vQuery, result |-> vResult]
    /\ vPc' = "changed"
    /\ UNCHANGED vSecret
    /\ UNCHANGED <<lookupVars, keyVars, oauthVars, catalogVars, pipeVars>>

NextVerify ==
    \/ VerifyCall
    \/ TamperCall

SpecVerify == InitVerify /\ [][NextVerify]_vars

\* C2: verifyShopifyProxy(P, S) is true exactly when S is not empty, P has a
\* non-empty signature, and the signature is the HMAC (key S) of the canonical
\* string of the other parameters; and after the text of one parameter value
\* of an accepted query was changed, the query is rejected.
C2_VerifyIffCanonicalHmac ==
    /\ vPc # "call" =>
          (vResult <=>
             /\ vSecret # ""
             /\ SIGNATURE \in DOMAIN vQuery
             /\ vQuery[SIGNATURE] # Str(<<>>)
             /\ vQuery[SIGNATURE] = Hmac(vSecret, CanonicalBase(WithoutKey(vQuery, SIGNATURE))))
    /\ (vPc = "changed" /\ vPrev.result) => ~vResult

\* An accepted query over three parameters had one value changed.
C2_Witness ==
    /\ vPc = "changed"
    /\ vPrev.result
    /\ Cardinality(DOMAIN vQuery) >= 3

(***************************************************************************)
(* SpecLookup: getId applied to bounded catalogs and inputs.               *)
(***************************************************************************)

\* The keys a catalog may hold: a seed file stores String(sku).trim() as it
\* is, so any trimmed text, also the empty one, can be a key.
CatalogKeys == {<<"A", "b">>, <<"A", "B">>, <<"a", "b">>, <<>>}

\* Number(id) of a seed or catalog record.
CatalogIds == {Num(42), Num(7), Num(0)}

Catalogs == UNION {[ks -> CatalogIds] : ks \in SUBSET CatalogKeys}

LookupInputs ==
    {<<"A", "b">>, <<"A", "B">>, <<"a", "b">>, <<" ", "A", "b", " ">>, <<"a", "B">>, <<>>, <<" ">>}

InitLookup ==
    /\ map \in Catalogs
    /\ RefreshOff
    /\ lkInput \in LookupInputs
    /\ lkResult = Undefined
    /\ lkBefore = map
    /\ lkPc = "call"
    /\ VerifyOff
    /\ KeyOff
    /\ OAuthOff
    /\ PipeOff

\* skuMap.getId(lkInput) is called and returns.
LookupCall ==
    /\ lkPc = "call"
    /\ lkResult' = getId(map, lkInput)
    /\ lkBefore' = map
    /\ lkPc' = "returned"
    /\ UNCHANGED <<catalogVars, lkInput>>
    /\ UNCHANGED <<verifyVars, keyVars, oauthVars, pipeVars>>

\* The caller looks another code up.
LookupAgain ==
    /\ lkPc = "returned"
    /\ lkInput' \in LookupInputs
    /\ lkPc' = "call"
    /\ UNCHANGED <<catalogVars, lkResult, lkBefore>>
    /\ UNCHANGED <<verifyVars, keyVars, oauthVars, pipeVars>>

NextLookup ==
    \/ LookupCall
    \/ LookupAgain

SpecLookup == InitLookup /\ [][NextLookup]_vars

\* The trimmed key, its upper-cased and its lower-cased form, in that order.
LookupCandidates(code) == <<Trim(code), ToUpperCase(Trim(code)), ToLowerCase(Trim(code))>>

\* C10: lookup(code) returns the id stored under the first of the trimmed key,
\* its upper-cased form and its lower-cased form that is a key of the mapping,
\* absent when none of them is or when the input is empty, and it leaves the
\* mapping as it was.
C10_LookupFirstOfThree ==
    lkPc = "returned" =>
        LET cands == LookupCandidates(lkInput)
            present == {i \in 1..3 : cands[i] \in DOMAIN lkBefore}
        IN /\ map = lkBefore
           /\ (lkInput = <<>> \/ present = {}) => lkResult = Undefined
           /\ (lkInput # <<>> /\ present # {}) =>
                 \E i \in present :
                    /\ \A j \in present : i <= j
                    /\ lkResult = lkBefore[cands[i]]

\* A lookup of " Ab " found no exact key and answered from the upper-cased
\* key while the lower-cased key holds another id.
C10_Witness ==
    /\ lkPc = "returned"
    /\ lkInput = <<" ", "A", "b", " ">>
    /\ <<"A", "b">> \notin DOMAIN map
    /\ <<"A", "B">> \in DOMAIN map
    /\ <<"a", "b">> \in DOMAIN map
    /\ map[<<"A", "B">>] # map[<<"a", "b">>]
    /\ lkResult = map[<<"A", "B">>]

(***************************************************************************)
(* SpecKey: makeCacheKey applied to the normalized tuples of two requests. *)
(***************************************************************************)

\* How many items a request of SpecKey may carry.
MaxItems == 2

KeyCeps == {<<"0", "1", "0", "0", "1", "0", "0", "0">>, <<"2", "0", "0", "0", "0", "0", "0", "0">>}

KeyIds == {Num(99), Num(501)}

KeyQtys == {Num(1), Num(2)}

\* total: not sent, or Number(total) of "10", "abc", "Infinity"
KeyTotals == {Undefined, Num(10), NaN, Infinity}

\* What the handler hands to makeCacheKey: an 8-digit postal code, one id and
\* one quantity per item, and the total.
NormalizedTuples ==
    UNION {[cep : KeyCeps, ids : [1..n -> KeyIds], qtys : [1..n -> KeyQtys], total : KeyTotals]
             : n \in 1..MaxItems}

InitKey ==
    /\ kA \in NormalizedTuples
    /\ kB \in NormalizedTuples
    /\ kKeyA = NoKey
    /\ kKeyB = NoKey
    /\ kPc = "call"
    /\ VerifyOff
    /\ LookupOff
    /\ CatalogNew
    /\ OAuthOff
    /\ PipeOff

\* Each of the two requests makes its key.
KeyCall ==
    /\ kPc = "call"
    /\ kKeyA' = makeCacheKey(kA.cep, kA.ids, kA.qtys, kA.total)
    /\ kKeyB' = makeCacheKey(kB.cep, kB.ids, kB.qtys, kB.total)
    /\ kPc' = "returned"
    /\ UNCHANGED <<kA, kB>>
    /\ UNCHANGED <<verifyVars, lookupVars, catalogVars, oauthVars, pipeVars>>

NextKey ==
    KeyCall

SpecKey == InitKey /\ [][NextKey]_vars

\* What a request with this normalized tuple sends to the quote API.
SentFor(t) == quoteBody(t.cep, t.total, t.ids, t.qtys, Num(ORDER_ID))

Scenario5 ==
    /\ kA.ids = <<Num(501), Num(99)>> /\ kA.qtys = <<Num(2), Num(1)>>
    /\ kB.ids = <<Num(99), Num(501)>> /\ kB.qtys = <<Num(1), Num(2)>>

\* C4 as stated: two requests get the same key exactly when their normalized
\* tuples (postal code, ids, quantities, total) are equal.
C4_SameKeyIffSameTuple ==
    kPc = "returned" => ((kKeyA = kKeyB) <=> (kA = kB))

\* C4 as amended: two requests get the same key exactly when they send the
\* same postal code, ids, quantities and total to the quote API, where NaN and
\* Infinity are both written as null; ids [501,99] with quantities [2,1] and
\* ids [99,501] with quantities [1,2] get distinct keys.
C4_SameKeyIffSameBodySent ==
    kPc = "returned" =>
        /\ (kKeyA = kKeyB) <=> (SentFor(kA) = SentFor(kB))
        /\ Scenario5 => kKeyA # kKeyB

\* The keys of the two requests of scenario 5 were made.
C4_Witness ==
    /\ kPc = "returned"
    /\ Scenario5
    /\ kA.cep = kB.cep
    /\ kA.total = kB.total

(***************************************************************************)
(* Spec: the quote handler serving requests, the clock advancing.          *)
(***************************************************************************)

\* The clock stops after MaxTime ticks.
MaxTime == 2

\* How many requests may be suspended at the quote API at once.
MaxInFlight == 1

\* The catalog the handler reads: "Ab" hydrated with id 501 under its three
\* forms, and "q" loaded from a seed object with id 0.
PipelineCatalog ==
    (<<"A", "b">> :> Num(501)) @@ (<<"A", "B">> :> Num(501)) @@ (<<"a", "b">> :> Num(501))
        @@ (<<"q">> :> Num(0))

GoodCep == Str(<<"0", "1", "0", "0", "1", "-", "0", "0", "0">>)

ShortCep == Str(<<"0", "1", "0", "0", "-", "1", "0", "0">>)

\* cep=01001-000&skus=Ab,99&quantities=2,1
ItemsByCode ==
    (CEP :> GoodCep) @@ (SKUS :> Str(<<"A", "b", ",", "9", "9">>))
        @@ (QUANTITIES :> Str(<<"2", ",", "1">>))

\* cep=01001-000&skus_ids=99,501&quantities=1,2
ItemsById ==
    (CEP :> GoodCep) @@ (SKUS_IDS :> Str(<<"9", "9", ",", "5", "0", "1">>))
        @@ (QUANTITIES :> Str(<<"1", ",", "2">>))

\* skus: [" ab", "99"], quantities: ["2", "1"], total absent
ItemsAsArrays ==
    (CEP :> GoodCep) @@ (SKUS :> Arr(<<<<" ", "a", "b">>, <<"9", "9">>>>))
        @@ (QUANTITIES :> Arr(<<<<"2">>, <<"1">>>>))

BadCep == (CEP :> ShortCep) @@ ItemsByCode

NoCep == [k \in {SKUS, QUANTITIES} |-> ItemsByCode[k]]

OneQuantity == (QUANTITIES :> Str(<<"2">>)) @@ ItemsByCode

NoItems == [k \in {CEP, QUANTITIES} |-> ItemsByCode[k]]

\* skus=Ab,nn,ab: "nn" is in no catalog
UnmappedCode ==
    (SKUS :> Str(<<"A", "b", ",", "n", "n", ",", "a", "b">>))
        @@ (QUANTITIES :> Str(<<"1", ",", "1", ",", "1">>)) @@ ItemsByCode

\* skus=q: "q" is mapped to the id 0
ZeroIdCode ==
    (SKUS :> Str(<<"q">>)) @@ (QUANTITIES :> Str(<<"1">>)) @@ ItemsByCode

\* The query as the platform forwards it: signed over all its parameters.
Signed(q) == q @@ (SIGNATURE :> Hmac(SHOPIFY_API_SECRET, CanonicalBase(q)))

\* The query with a signature that was made for other parameters.
SignedAs(q, other) == q @@ (SIGNATURE :> Hmac(SHOPIFY_API_SECRET, CanonicalBase(other)))

Get(q) == [method |-> "GET", query |-> q, body |-> <<>>]

Post(q, b) == [method |-> "POST", query |-> q, body |-> b]

ShopOnly == SHOP :> Str(<<"s">>)

PipelineRequests ==
    {Get(Signed(ItemsByCode)), Get(ItemsByCode), Get(SignedAs(ItemsByCode, ItemsById)),
     Get(Signed(ItemsById)), Get(Signed(ItemsAsArrays)),
     Get(Signed(BadCep)), Get(BadCep), Get(Signed(NoCep)),
     Get(Signed(OneQuantity)), Get(Signed(NoItems)),
     Get(Signed(UnmappedCode)), Get(Signed(ZeroIdCode)),
     Post(Signed(ShopOnly), ItemsAsArrays), Post(ShopOnly, ItemsById)}

\* The catalogs the handler may read.
PipelineCatalogs == {PipelineCatalog}

\* proxyFront, tabulated over the configurations, catalogs and requests of
\* the model: it reads nothing else.
proxyFrontTable ==
    [v \in Variants, d \in BOOLEAN, m \in PipelineCatalogs, req \in PipelineRequests |->
        proxyFront(v, d, m, req)]

\* app.all(proxyPath, ...) up to its first suspension or its response.
proxyHandler(v, disabled, m, cache, t, req) ==
    stepCache(v, cache, t, proxyFrontTable[v, disabled, m, req])

Init ==
    /\ variant \in Variants
    /\ disableCheck \in BOOLEAN
    /\ proxyPath \in {"default", "custom"}
    \* the first handler file registers one handler only, whatever the path
    /\ variant = "part_001" => proxyPath = "default"
    /\ quoteCache = <<>>
    /\ now = 0
    /\ inflight = {}
    /\ ended = NoRequest
    /\ lastRead = NoRead
    /\ map \in PipelineCatalogs
    /\ RefreshOff
    /\ VerifyOff
    /\ LookupOff
    /\ KeyOff
    /\ OAuthOff

\* A request to proxyPath arrives and app.all(proxyPath, ...) runs to its
\* response or to `await calcularFreteYampi(...)`.
ProxyRequest ==
    /\ ~Shadowed
    /\ \E req \in PipelineRequests :
          LET r == proxyHandler(variant, disableCheck, map, quoteCache, now, req)
          IN /\ r.pc = "awaiting" => Cardinality(inflight \cup {r}) <= MaxInFlight
             /\ inflight' = IF r.pc = "awaiting" THEN inflight \cup {r} ELSE inflight
             /\ ended' = IF r.pc = "awaiting" THEN NoRequest ELSE r
             /\ lastRead' = ReadBy(variant, quoteCache, now, r)
             /\ quoteCache' = cacheAfterLookup(variant, quoteCache, now, r)
    /\ UNCHANGED <<configVars, now, catalogVars, verifyVars, lookupVars, keyVars, oauthVars>>

\* calcularFreteYampi returns or throws, and the handler runs to its end.
ProxyReturn ==
    /\ \E r \in inflight : \E o \in UpstreamOutcomes :
          /\ r.route = "proxy"
          /\ LET h == proxyResume(variant, quoteCache, now, r, o)
             IN /\ ended' = h.rec
                /\ quoteCache' = h.cache
          /\ inflight' = inflight \ {r}
    /\ lastRead' = NoRead
    /\ UNCHANGED <<configVars, now, catalogVars, verifyVars, lookupVars, keyVars, oauthVars>>

\* A request to proxyPath arrives and app.all('/apps/shipping-quotes', ...),
\* registered first for the same path, handles it.
ShadowRequest ==
    /\ Shadowed
    /\ \E req \in PipelineRequests :
          LET r == shadowHandler(variant, req)
          IN /\ r.pc = "awaiting" => Cardinality(inflight \cup {r}) <= MaxInFlight
             /\ inflight' = IF r.pc = "awaiting" THEN inflight \cup {r} ELSE inflight
             /\ ended' = IF r.pc = "awaiting" THEN NoRequest ELSE r
    /\ lastRead' = NoRead
    /\ UNCHANGED <<configVars, quoteCache, now, catalogVars, verifyVars, lookupVars, keyVars, oauthVars>>

\* calcularFreteYampi returns or throws in app.all('/apps/shipping-quotes').
ShadowReturn ==
    /\ \E r \in inflight : \E o \in UpstreamOutcomes :
          /\ r.route = "shadow"
          /\ ended' = shadowResume(variant, r, o)
          /\ inflight' = inflight \ {r}
    /\ lastRead' = NoRead
    /\ UNCHANGED <<configVars, quoteCache, now, catalogVars, verifyVars, lookupVars, keyVars, oauthVars>>

\* Time passes.
Tick ==
    /\ now < MaxTime
    /\ now' = now + 1
    /\ ended' = NoRequest
    /\ lastRead' = NoRead
    /\ UNCHANGED <<configVars, quoteCache, inflight, catalogVars, verifyVars, lookupVars, keyVars, oauthVars>>

Next ==
    \/ ProxyRequest
    \/ ProxyReturn
    \/ ShadowRequest
    \/ ShadowReturn
    \/ Tick

Spec == Init /\ [][Next]_vars

(***************************************************************************)
(* SpecCatalog: bootstrap(), hydrateOnce() called by bootstrap, by the      *)
(* refresh timer and by POST /admin/refresh-skus, startAutoRefresh() and    *)
(* stopAutoRefresh(), against a catalog API that answers each page request  *)
(* with any page or with a failure.                                         *)
(***************************************************************************)

\* SKU_SEED_FILE: not set or no such file, a file that cannot be read or
\* parsed, an array of records, an object.
SeedSources ==
    { [form |-> "none", recs |-> <<>>],
      [form |-> "throws", recs |-> <<>>],
      [form |-> "array",
       recs |-> <<[t |-> "obj", sku |-> Str(<<"A", "b", " ">>), id |-> JNum(1)], JNull,
                  [t |-> "obj", sku |-> Str(<<"A", "B">>), id |-> JNum(0)]>>],
      [form |-> "object", recs |-> <<<<<<"a", "b">>, Str(<<"x">>)>>>>] }

\* Options a direct call of hydrateOnce passes.
PageStarts == {PAGE_START, PAGE_START + 1}

PageCaps == {1, MaxPages}

InitCatalog ==
    /\ CatalogNew
    /\ VerifyOff
    /\ LookupOff
    /\ KeyOff
    /\ OAuthOff
    /\ PipeOff

BootDone == Len(boot) = 3

\* await skuMap.bootstrap(): the seed load, then hydrateOnce() up to its first
\* page request.
Bootstrap ==
    /\ boot = <<>>
    /\ \E seed \in SeedSources :
          /\ map' = MapSetAll(map, seedWrites(seed))
          /\ op' = OpOf("bootstrap", "boot", "awaiting", FALSE, seedWrites(seed), 0)
    /\ boot' = <<"seed", "hydrate">>
    /\ runs' = [runs EXCEPT !.boot = hydrateOnce(PAGE_START, MaxPages)]
    /\ UNCHANGED <<timer, timers, stopped, hObs>>
    /\ UNCHANGED <<verifyVars, lookupVars, keyVars, oauthVars, pipeVars>>

\* A page request of bootstrap's hydrateOnce() returns; when hydrateOnce ends,
\* bootstrap catches its throw and calls startAutoRefresh().
BootPage ==
    /\ runs.boot # NoRun
    /\ \E resp \in PageResponses :
          LET res == hydrateResume(map, runs.boot, resp)
              armed == bootstrapAfterHydrate(timer, timers, res.status)
          IN /\ map' = res.map
             /\ runs' = [runs EXCEPT !.boot = res.run]
             /\ op' = PageOp("boot", res.status # "awaiting" /\ armed.raised, res,
                             runs.boot, resp)
             /\ IF res.status = "awaiting"
                THEN UNCHANGED <<boot, timer, timers>>
                ELSE /\ boot' = Append(boot, "arm")
                     /\ timer' = armed.timer
                     /\ timers' = armed.timers
    /\ UNCHANGED <<stopped, hObs>>
    /\ UNCHANGED <<verifyVars, lookupVars, keyVars, oauthVars, pipeVars>>

\* POST /admin/refresh-skus, or another direct call: hydrateOnce() up to its
\* first page request.
ManualHydrate ==
    /\ boot # <<>>
    /\ runs.manual = NoRun
    /\ \E ps \in PageStarts, mp \in PageCaps :
          runs' = [runs EXCEPT !.manual = hydrateOnce(ps, mp)]
    /\ op' = OpOf("hydrate", "manual", "awaiting", FALSE, <<>>, 0)
    /\ UNCHANGED <<map, timer, timers, boot, stopped, hObs>>
    /\ UNCHANGED <<verifyVars, lookupVars, keyVars, oauthVars, pipeVars>>

\* A page request of the manual hydrateOnce() returns; its throw goes to the
\* caller.
ManualPage ==
    /\ runs.manual # NoRun
    /\ \E resp \in PageResponses :
          LET res == hydrateResume(map, runs.manual, resp)
          IN /\ map' = res.map
             /\ runs' = [runs EXCEPT !.manual = res.run]
             /\ op' = PageOp("manual", res.status = "threw", res, runs.manual, resp)
    /\ UNCHANGED <<timer, timers, boot, stopped, hObs>>
    /\ UNCHANGED <<verifyVars, lookupVars, keyVars, oauthVars, pipeVars>>

\* A pending timer fires: run() calls hydrateOnce() up to its first page
\* request.
Fire(id) ==
    /\ timers[id] = "pending"
    /\ timers' = [timers EXCEPT ![id] = "fired"]
    /\ runs' = [runs EXCEPT !.tick[id] = hydrateOnce(PAGE_START, MaxPages)]
    /\ op' = OpOf("fire", "tick", "awaiting", FALSE, <<>>, 0)
    /\ UNCHANGED <<map, timer, boot, stopped, hObs>>
    /\ UNCHANGED <<verifyVars, lookupVars, keyVars, oauthVars, pipeVars>>

\* A page request of run()'s hydrateOnce() returns; when hydrateOnce ends,
\* run() catches its throw and sets the next timer.
TickPage(id) ==
    /\ runs.tick[id] # NoRun
    /\ \E resp \in PageResponses :
          LET res == hydrateResume(map, runs.tick[id], resp)
              next == runFinally(timers, id)
          IN /\ map' = res.map
             /\ runs' = [runs EXCEPT !.tick[id] = res.run]
             /\ op' = PageOp("tick", FALSE, res, runs.tick[id], resp)
             /\ IF res.status = "awaiting"
                THEN UNCHANGED <<timer, timers>>
                ELSE /\ timer' = next.timer
                     /\ timers' = next.timers
    /\ UNCHANGED <<boot, stopped, hObs>>
    /\ UNCHANGED <<verifyVars, lookupVars, keyVars, oauthVars, pipeVars>>

\* skuMap.startAutoRefresh() is called once more.
StartAutoRefresh ==
    /\ BootDone
    /\ FreeTimers(timers) # {}
    /\ timer' = startAutoRefresh(timer, timers).timer
    /\ timers' = startAutoRefresh(timer, timers).timers
    /\ op' = OpOf("start", "none", "returned", FALSE, <<>>, 0)
    /\ UNCHANGED <<map, runs, boot, stopped, hObs>>
    /\ UNCHANGED <<verifyVars, lookupVars, keyVars, oauthVars, pipeVars>>

\* skuMap.stopAutoRefresh() is called.
StopAutoRefresh ==
    /\ BootDone
    /\ timers' = stopAutoRefresh(timer, timers)
    /\ stopped' = TRUE
    /\ op' = OpOf("stop", "none", "returned", FALSE, <<>>, 0)
    /\ UNCHANGED <<map, timer, runs, boot, hObs>>
    /\ UNCHANGED <<verifyVars, lookupVars, keyVars, oauthVars, pipeVars>>

NextCatalog ==
    \/ Bootstrap
    \/ BootPage
    \/ ManualHydrate
    \/ ManualPage
    \/ \E id \in TimerIds : Fire(id)
    \/ \E id \in TimerIds : TickPage(id)
    \/ StartAutoRefresh
    \/ StopAutoRefresh

SpecCatalog == InitCatalog /\ [][NextCatalog]_vars

\* Each page request returns, and a pending timer fires.
CatalogFairness ==
    /\ WF_vars(BootPage)
    /\ WF_vars(ManualPage)
    /\ \A id \in TimerIds : WF_vars(TickPage(id))
    /\ \A id \in TimerIds : WF_vars(Fire(id))

SpecCatalogFair == SpecCatalog /\ CatalogFairness

(***************************************************************************)
(* The claims about the quote handler                                      *)
(***************************************************************************)

\* The requests being handled, and the one whose handler just ended.
Handled == inflight \cup (IF ended.pc = "none" THEN {} ELSE {ended})

\* The request carries the signature the platform computes for its query.
SignatureValid(req) ==
    /\ SIGNATURE \in DOMAIN req.query
    /\ req.query[SIGNATURE]
          = Hmac(SHOPIFY_API_SECRET, CanonicalBase(WithoutKey(req.query, SIGNATURE)))

\* The request passes step 1: its signature is valid or the check is disabled.
PassesSignature(req) == disableCheck \/ SignatureValid(req)

\* What the request asks a quote for, read off the request itself.
AskedCep(req) == cepOf(ParamsOf(variant, req))

AskedCodes(req) == skusArrOf(ParamsOf(variant, req))

AskedQtys(req) == qtyArrOf(ParamsOf(variant, req))

PassesCep(req) == Len(AskedCep(req)) = 8

PassesItems(req) == AskedCodes(req) # <<>> /\ Len(AskedCodes(req)) = Len(AskedQtys(req))

\* The id the catalog or the code itself gives for an item code.
IdOfCode(code) == IF AllDigits(code) THEN Num(DigitsValue(code)) ELSE getId(map, code)

Unmapped(code) == ~AllDigits(code) /\ NotTruthy(getId(map, code))

NothingDone(r) == r.lookups = <<>> /\ r.reads = 0 /\ r.writes = 0 /\ r.calls = 0

\* C1: with the signature check enabled, a request whose signature does not
\* verify is answered 401 "Invalid proxy signature" and makes no catalog
\* lookup, no cache read or write and no call of the quote API; a request
\* leaves Unverified only if its signature verified or the check is disabled.
C1_InvalidSignatureRejected ==
    \A r \in Handled :
        /\ (~disableCheck /\ ~SignatureValid(r.req)) =>
              /\ r.pc = "responded"
              /\ r.status = 401
              /\ r.error.msg = "Invalid proxy signature"
              /\ NothingDone(r)
        /\ r.stage # "Unverified" => PassesSignature(r.req)

\* C3: a lookup of the quote cache yields the stored payload, unchanged,
\* exactly when an entry exists for the key and now - storedAt < TTL, and yields
\* nothing when there is no entry or now - storedAt >= TTL.
C3_CacheValidWhileYoungerThanTTL ==
    lastRead.made =>
        IF lastRead.entry # NoEntry /\ lastRead.at - lastRead.entry.at < TTL
        THEN lastRead.got = lastRead.entry.data
        ELSE lastRead.got = NullPayload

\* C5: a request calls the quote API at most once; it does not call it when
\* the cache lookup is a hit, and then answers the cached payload with
\* cached = true; it does not call it when it was answered 401 or 400, the
\* errors of the steps before the cache check.
C5_AtMostOneUpstreamCall ==
    /\ \A r \in Handled :
          /\ r.calls <= 1
          /\ Len(r.sent) = r.calls
          /\ (r.pc = "responded" /\ r.status \in {400, 401}) => r.calls = 0
          /\ r.stage = "CacheHit" => (r.calls = 0 /\ r.cached /\ r.status = 200)
    /\ ended.stage = "CacheHit" =>
          /\ lastRead.made
          /\ lastRead.entry # NoEntry
          /\ ended.data = lastRead.entry.data

\* A request was answered from the cache; another called the quote API,
\* which failed.
C5_Witness ==
    /\ ended.stage = "CacheHit"
    /\ ended.calls = 0
    /\ ended.data = [shape |-> "object", id |-> 2]

\* C6: a request reaches the cache check or the quote API only if each of its
\* item codes is numeric or resolved by the catalog, and then its ids are the
\* codes' ids in the order of the codes, one per quantity; a request that
\* passes the gates before and has a code without mapping is answered 400
\* naming the first such code, with no cache access and no call.
C6_ResolvedIdsAligned ==
    \A r \in Handled :
        LET codes == AskedCodes(r.req)
        IN /\ (r.reads = 1 \/ r.calls = 1) =>
                 /\ \A i \in 1..Len(codes) : ~Unmapped(codes[i])
                 /\ r.ids = [i \in 1..Len(codes) |-> IdOfCode(codes[i])]
                 /\ Len(r.ids) = Len(AskedQtys(r.req))
           /\ (/\ PassesSignature(r.req) /\ PassesCep(r.req) /\ PassesItems(r.req)
               /\ \E i \in 1..Len(codes) : Unmapped(codes[i])) =>
                 /\ r.pc = "responded"
                 /\ r.status = 400
                 /\ \E i \in 1..Len(codes) :
                       /\ Unmapped(codes[i])
                       /\ \A j \in 1..(i - 1) : ~Unmapped(codes[j])
                       /\ r.error.arg = codes[i]
                 /\ r.reads = 0 /\ r.writes = 0 /\ r.calls = 0

\* C7: a request that passes the signature step and whose postal code does not
\* have exactly 8 digits is answered 400 and makes no catalog lookup, no call
\* of the quote API and no cache write; a request goes past normalization only
\* with an 8-digit postal code.
C7_PostalCodeGate ==
    \A r \in Handled :
        /\ (PassesSignature(r.req) /\ ~PassesCep(r.req)) =>
              /\ r.pc = "responded"
              /\ r.status = 400
              /\ r.lookups = <<>> /\ r.calls = 0 /\ r.writes = 0
        /\ (r.stage \notin {"Unverified", "Verified"} \/ r.calls > 0) => PassesCep(r.req)

\* C8: a request that passes the steps before and whose item codes are none
\* or are not as many as its quantities is answered 400 "malformed items"
\* without any catalog lookup, cache access or call of the quote API.
C8_ItemListGate ==
    \A r \in Handled :
        (PassesSignature(r.req) /\ PassesCep(r.req) /\ ~PassesItems(r.req)) =>
            /\ r.pc = "responded"
            /\ r.status = 400
            /\ r.error.msg = "Itens ausentes ou mal formatados"
            /\ NothingDone(r)

\* The handler of a request that missed the cache ends on a response of the
\* quote API that is not ok.
UpstreamFailureAfterMiss ==
    /\ ended'.pc # "none"
    /\ ended'.reads = 1
    /\ ended'.upstream = "failed"

\* C9 as stated: after a cache miss, a response of the quote API that is not
\* ok ends the request in an error 502 carrying the status and the body, and
\* the quote cache is left as it was.
C9_UpstreamFailureIs502 ==
    [][UpstreamFailureAfterMiss =>
          /\ ended'.pc = "responded"
          /\ ended'.status = 502
          /\ ended'.error = [msg |-> "Yampi", arg |-> <<"503", "unavailable">>]
          /\ quoteCache' = quoteCache]_vars

\* C9 as amended: after a cache miss, a response of the quote API that is not
\* ok ends the request in an error 500 whose message carries the status and
\* the body of that response, and the quote cache is left as it was.
C9_UpstreamFailureIs500 ==
    [][UpstreamFailureAfterMiss =>
          /\ ended'.pc = "responded"
          /\ ended'.status = 500
          /\ ended'.error = [msg |-> "Yampi", arg |-> <<"503", "unavailable">>]
          /\ quoteCache' = quoteCache]_vars

\* A request missed the cache, the quote API answered 503, and the request
\* was answered an error while the cache holds another key's entry.
C9_Witness ==
    /\ ended.reads = 1
    /\ ended.upstream = "failed"
    /\ ended.pc = "responded"
    /\ ended.status >= 500
    /\ ended.key \notin DOMAIN quoteCache
    /\ quoteCache # <<>>

(***************************************************************************)
(* The claims about the catalog                                            *)
(***************************************************************************)

\* The entry written last in the last step, if the step wrote one.
LastWrite == op.wrote[Len(op.wrote)]

Spaced(code) == <<" ">> \o code \o <<" ">>

\* C11: an entry (code, id) inserted by the seed load or by hydration is in
\* the catalog under the trimmed, the upper-cased and the lower-cased form of
\* its code, so the lookups of the code in lower case, in upper case and with
\* spaces around it all return the id.
C11_StoredUnderThreeForms ==
    op.wrote # <<>> =>
        LET code == LastWrite[1]
            id == LastWrite[2]
        IN /\ \A k \in {code, ToUpperCase(code), ToLowerCase(code)} :
                 k \in DOMAIN map /\ map[k] = id
           /\ getId(map, ToLowerCase(code)) = id
           /\ getId(map, ToUpperCase(code)) = id
           /\ getId(map, Spaced(code)) = id

\* C12: no step removes a key from the catalog; a page request that fails
\* ends the hydrateOnce call with a throw, which reaches the caller of a manual
\* hydration, and leaves the catalog as it was, with the entries written from
\* the earlier pages of that call and from earlier calls.
C12_HydrationOnlyAdds ==
    [][/\ DOMAIN map \subseteq DOMAIN map'
       /\ (op'.name = "page" /\ ~op'.resp.ok) =>
             /\ op'.status = "threw"
             /\ map' = map
             /\ (op'.who = "manual" => op'.raised /\ runs'.manual = NoRun)
             /\ (op'.who = "boot" => runs'.boot = NoRun)]_vars

\* The second page request of a hydration failed after its first page had
\* written an entry, which is still in the catalog.
C12_Witness ==
    /\ op.name = "page"
    /\ op.status = "threw"
    /\ op.run.requests = 2
    /\ op.total > 0
    /\ map # <<>>

\* The hydrateOnce calls in flight.
RunsInFlight ==
    ({runs.boot, runs.manual} \cup {runs.tick[id] : id \in TimerIds}) \ {NoRun}

\* The page that returned is empty.
PageEmpty(resp) == resp.data.t = "null" \/ resp.data.v = <<>>

\* The page that returned reports a total page count.
ReportsTotal(resp) == resp.total_pages.t # "null"

\* The number of the page that returned is at least the reported total.
ReachedReportedTotal(run, resp) ==
    /\ ReportsTotal(resp)
    /\ NumberOfJson(resp.total_pages).k = "num"
    /\ run.page >= NumberOfJson(resp.total_pages).n

\* The call has requested as many pages as its cap allows.
ReachedCap(run) == run.requests >= run.maxPages

\* Every call requests consecutive pages from pageStart on, at most maxPages.
PagesConsecutiveAndCapped ==
    /\ \A r \in RunsInFlight :
          /\ r.requests <= r.maxPages
          /\ r.page = r.pageStart + r.requests - 1
    /\ op.name = "page" =>
          /\ op.run.requests <= op.run.maxPages
          /\ op.run.page = op.run.pageStart + op.run.requests - 1
          /\ op.status = "awaiting" =>
                RunsInFlight # {} /\ \E r \in RunsInFlight : r.page = op.run.page + 1

\* Every hydrateOnce call in flight ends.
HydrationTerminates ==
    /\ (runs.boot # NoRun) ~> (runs.boot = NoRun)
    /\ (runs.manual # NoRun) ~> (runs.manual = NoRun)
    /\ \A id \in TimerIds : (runs.tick[id] # NoRun) ~> (runs.tick[id] = NoRun)

\* C13 as stated: every hydrateOnce call ends; it requests consecutive pages
\* from pageStart on, never more than maxPages, and the page after which it
\* stops is the first that is empty, or whose number is at least the reported
\* total page count, or with which the requests reach maxPages.
C13_StopsAtEmptyTotalOrCap ==
    /\ [](/\ PagesConsecutiveAndCapped
          /\ (op.name = "page" /\ op.resp.ok) =>
                (op.status = "returned" <=>
                    \/ PageEmpty(op.resp)
                    \/ ReachedReportedTotal(op.run, op.resp)
                    \/ ReachedCap(op.run)))
    /\ HydrationTerminates

\* C13 as amended: as stated, and the call also stops after the first page
\* that reports no total page count.
C13_StopsAtEmptyTotalNoTotalOrCap ==
    /\ [](/\ PagesConsecutiveAndCapped
          /\ (op.name = "page" /\ op.resp.ok) =>
                (op.status = "returned" <=>
                    \/ PageEmpty(op.resp)
                    \/ ReachedReportedTotal(op.run, op.resp)
                    \/ ~ReportsTotal(op.resp)
                    \/ ReachedCap(op.run)))
    /\ HydrationTerminates

\* A call stopped at its cap of MaxPages requests, after a page that was not
\* empty and reported a larger total.
C13_Witness ==
    /\ op.name = "page"
    /\ op.status = "returned"
    /\ op.run.maxPages = MaxPages
    /\ op.run.requests = MaxPages
    /\ ~PageEmpty(op.resp)
    /\ ReportsTotal(op.resp)
    /\ ~ReachedReportedTotal(op.run, op.resp)

\* C14: a scheduled hydration that fails does not raise, and when it has
\* failed the next timer is pending; once a timer has been set, and as long as
\* stopAutoRefresh() has not been called, a scheduled hydration starts again
\* and again.
C14_RefreshKeepsRunning ==
    /\ []((op.who = "tick" /\ op.status \in {"threw", "returned"}) =>
             (~op.raised /\ timer # 0 /\ timers[timer] = "pending"))
    /\ []((timer # 0 /\ ~stopped) => <>(op.name = "fire" \/ stopped))

\* A scheduled hydration has failed, nothing was raised, the next timer is
\* pending and stopAutoRefresh() was never called.
C14_Witness ==
    /\ op.who = "tick"
    /\ op.status = "threw"
    /\ ~op.raised
    /\ timers[timer] = "pending"
    /\ ~stopped

PendingTimers == {id \in TimerIds : timers[id] = "pending"}

\* C15: at most one refresh timer is pending and at most one scheduled
\* hydration is in flight, and never both: the next timer is set only when
\* the scheduled hydration has ended, however often startAutoRefresh() is
\* called.
C15_OneTimerOneScheduledRun ==
    /\ Cardinality(PendingTimers) <= 1
    /\ Cardinality(TicksInFlight(runs)) <= 1
    /\ ~(PendingTimers # {} /\ TicksInFlight(runs) # {})
    /\ PendingTimers # {} => timer \in PendingTimers

\* startAutoRefresh() was called while a scheduled hydration was in flight.
C15_Witness ==
    /\ op.name = "start"
    /\ TicksInFlight(runs) # {}
    /\ PendingTimers = {}

\* C16: stopAutoRefresh() cancels the pending timer, whose scheduled run then
\* never starts, and changes nothing else; when no timer is pending it changes
\* nothing.
C16_StopCancelsPending ==
    [][/\ op'.name = "stop" =>
             /\ \A id \in TimerIds :
                   timers'[id] = (IF timers[id] = "pending" THEN "cleared" ELSE timers[id])
             /\ UNCHANGED <<map, timer, runs, boot>>
       /\ \A id \in TimerIds :
             timers[id] = "cleared" => (timers'[id] # "fired" /\ runs'.tick[id] = NoRun)]_vars

\* stopAutoRefresh() was called with a timer pending, which is now cancelled.
C16_Witness ==
    /\ op.name = "stop"
    /\ timer # 0
    /\ timers[timer] = "cleared"
    /\ TicksInFlight(runs) = {}

\* C17: bootstrap() never raises; it does the seed load, then the initial
\* hydration, then startAutoRefresh(), in that order, and when it has ended a
\* refresh timer is pending, whatever the seed file and the hydration did.
C17_BootstrapNeverFatal ==
    /\ boot \in {<<>>, <<"seed", "hydrate">>, <<"seed", "hydrate", "arm">>}
    /\ op.who = "boot" => ~op.raised
    /\ ~BootDone => (timer = 0 /\ PendingTimers = {})
    /\ (boot = <<"seed", "hydrate">>) <=> (runs.boot # NoRun)
    /\ (op.who = "boot" /\ op.status \in {"threw", "returned"}) =>
          /\ BootDone
          /\ timer # 0
          /\ timers[timer] = "pending"

\* bootstrap() has ended with the timer pending after a seed that gave no
\* entry and an initial hydration that failed.
C17_Witness ==
    /\ op.who = "boot"
    /\ op.status = "threw"
    /\ map = <<>>
    /\ BootDone
    /\ timers[timer] = "pending"

(***************************************************************************)
(* The frame of the quote handler                                          *)
(***************************************************************************)

\* The step stores the payload of the request that just ended, under its key
\* and with the current time, and changes no other entry.
StoresEndedRequest ==
    /\ ended'.pc = "responded"
    /\ ended'.upstream = "ok"
    /\ ended'.status = 200
    /\ DOMAIN quoteCache' = DOMAIN quoteCache \cup {ended'.key}
    /\ quoteCache'[ended'.key] = [at |-> now, data |-> ended'.data]
    /\ \A k \in DOMAIN quoteCache : k # ended'.key => quoteCache'[k] = quoteCache[k]

\* The step removes the entry that its cache lookup found older than TTL, and
\* changes no other entry.
RemovesExpiredEntryRead ==
    /\ lastRead'.made
    /\ lastRead'.key \in DOMAIN quoteCache
    /\ now - quoteCache[lastRead'.key].at > TTL
    /\ DOMAIN quoteCache' = DOMAIN quoteCache \ {lastRead'.key}
    /\ \A k \in DOMAIN quoteCache' : quoteCache'[k] = quoteCache[k]

\* The step ends a request in a cache hit or in an error.
EndsInHitOrError ==
    /\ ended'.pc = "responded"
    /\ ended'.cached \/ ended'.status >= 400

\* C18 as stated: handling a request never changes the catalog, and changes
\* the quote cache only by storing the result of a successful call of the
\* quote API; a step that ends a request in a cache hit or in an error leaves
\* the quote cache as it was.
C18_CacheChangedOnlyByStore ==
    [][/\ map' = map
       /\ quoteCache' # quoteCache => StoresEndedRequest
       /\ EndsInHitOrError => quoteCache' = quoteCache]_vars

\* C18 as amended: as stated, except that the cache lookup of a request also
\* removes the entry of its key when it finds it older than TTL.
C18_CacheChangedByStoreOrExpiry ==
    [][/\ map' = map
       /\ quoteCache' # quoteCache => (StoresEndedRequest \/ RemovesExpiredEntryRead)
       /\ EndsInHitOrError => quoteCache' = quoteCache]_vars

\* A cache lookup found an entry older than TTL and removed it.
C18_Witness ==
    /\ lastRead.made
    /\ lastRead.entry # NoEntry
    /\ lastRead.at - lastRead.entry.at > TTL
    /\ lastRead.key \notin DOMAIN quoteCache

(***************************************************************************)
(* The values of the catalog                                               *)
(***************************************************************************)

\* The id is a positive integer.
PositiveInteger(id) == id.k = "num" /\ id.n > 0

\* Every key written by the last operation holds the id of the last of these
\* writes to it.
LastWriteWins ==
    \A i \in 1..Len(op.wrote) :
        (\A j \in (i + 1)..Len(op.wrote) : op.wrote[j][1] # op.wrote[i][1]) =>
            /\ op.wrote[i][1] \in DOMAIN map
            /\ map[op.wrote[i][1]].k = op.wrote[i][2].k
            /\ map[op.wrote[i][1]].n = op.wrote[i][2].n

\* C19: every value stored in the catalog is a positive integer, whatever the
\* seed source and the catalog pages hold, and the id stored under a key is
\* the one of the latest write to it.
C19_IdsPositiveLastWriteWins ==
    /\ \A key \in DOMAIN map : PositiveInteger(map[key])
    /\ LastWriteWins

(***************************************************************************)
(* A manual hydration and a scheduled one on the same catalog              *)
(***************************************************************************)

\* The catalog once bootstrap has ended with no seed and no page: the map is
\* empty and the first timer is pending.  One manual hydration and one
\* scheduled run are followed, hObs keeping the writes of each in order.
InitConcurrent ==
    /\ map = <<>>
    /\ timer = 1
    /\ timers = [id \in TimerIds |-> IF id = 1 THEN "pending" ELSE "free"]
    /\ runs = NoRuns
    /\ boot = <<"seed", "hydrate", "arm">>
    /\ stopped = FALSE
    /\ op = NoOp
    /\ hObs = NoObs
    /\ VerifyOff
    /\ LookupOff
    /\ KeyOff
    /\ OAuthOff
    /\ PipeOff

\* The hydrateOnce call of `who` starts: it overlaps the other one when that
\* one is in flight.
ObsStart(obs, who, otherInFlight) ==
    [obs EXCEPT !.overlap = obs.overlap \/ otherInFlight]

\* A page of the hydrateOnce call of `who` returned.
ObsPage(obs, who, res) ==
    [obs EXCEPT ![who] = obs[who] \o res.wrote,
                !.done = IF res.status = "awaiting" THEN obs.done
                         ELSE obs.done \cup {who}]

\* POST /admin/refresh-skus: skuMap.hydrateOnce() up to its first page
\* request.
RefreshSkus ==
    /\ runs.manual = NoRun
    /\ "manual" \notin hObs.done
    /\ runs' = [runs EXCEPT !.manual = hydrateOnce(PAGE_START, MaxPages)]
    /\ op' = OpOf("hydrate", "manual", "awaiting", FALSE, <<>>, 0)
    /\ hObs' = ObsStart(hObs, "manual", TicksInFlight(runs) # {})
    /\ UNCHANGED <<map, timer, timers, boot, stopped>>
    /\ UNCHANGED <<verifyVars, lookupVars, keyVars, oauthVars, pipeVars>>

\* A page request of the manual hydrateOnce() returns.
RefreshSkusPage ==
    /\ runs.manual # NoRun
    /\ \E resp \in PageResponses :
          LET res == hydrateResume(map, runs.manual, resp)
          IN /\ map' = res.map
             /\ runs' = [runs EXCEPT !.manual = res.run]
             /\ op' = PageOp("manual", res.status = "threw", res, runs.manual, resp)
             /\ hObs' = ObsPage(hObs, "manual", res)
    /\ UNCHANGED <<timer, timers, boot, stopped>>
    /\ UNCHANGED <<verifyVars, lookupVars, keyVars, oauthVars, pipeVars>>

\* The pending timer fires: run() calls hydrateOnce() up to its first page
\* request.
RunTick(id) ==
    /\ timers[id] = "pending"
    /\ "tick" \notin hObs.done
    /\ timers' = [timers EXCEPT ![id] = "fired"]
    /\ runs' = [runs EXCEPT !.tick[id] = hydrateOnce(PAGE_START, MaxPages)]
    /\ op' = OpOf("fire", "tick", "awaiting", FALSE, <<>>, 0)
    /\ hObs' = ObsStart(hObs, "tick", runs.manual # NoRun)
    /\ UNCHANGED <<map, timer, boot, stopped>>
    /\ UNCHANGED <<verifyVars, lookupVars, keyVars, oauthVars, pipeVars>>

\* A page request of run()'s hydrateOnce() returns; when hydrateOnce ends,
\* run() sets the next timer.
RunTickPage(id) ==
    /\ runs.tick[id] # NoRun
    /\ \E resp \in PageResponses :
          LET res == hydrateResume(map, runs.tick[id], resp)
              next == runFinally(timers, id)
          IN /\ map' = res.map
             /\ runs' = [runs EXCEPT !.tick[id] = res.run]
             /\ op' = PageOp("tick", FALSE, res, runs.tick[id], resp)
             /\ hObs' = ObsPage(hObs, "tick", res)
             /\ IF res.status = "awaiting"
                THEN UNCHANGED <<timer, timers>>
                ELSE /\ timer' = next.timer
                     /\ timers' = next.timers
    /\ UNCHANGED <<boot, stopped>>
    /\ UNCHANGED <<verifyVars, lookupVars, keyVars, oauthVars, pipeVars>>

NextConcurrent ==
    \/ RefreshSkus
    \/ RefreshSkusPage
    \/ \E id \in TimerIds : RunTick(id)
    \/ \E id \in TimerIds : RunTickPage(id)

SpecConcurrent == InitConcurrent /\ [][NextConcurrent]_vars

\* The manual and the scheduled hydration have both ended, and were in flight
\* at the same time.
BothEndedOverlapped == hObs.overlap /\ hObs.done = {"manual", "tick"}

\* The catalog the two runs leave when the first one ends before the second
\* one starts.
OneAfterTheOther(first, second) == MapSetAll(MapSetAll(<<>>, first), second)

SameMap(m1, m2) ==
    /\ DOMAIN m1 = DOMAIN m2
    /\ \A key \in DOMAIN m1 : m1[key].k = m2[key].k /\ m1[key].n = m2[key].n

\* The writes made by the two runs.
WritesOfBothRuns ==
    {hObs.manual[i] : i \in DOMAIN hObs.manual} \cup {hObs.tick[i] : i \in DOMAIN hObs.tick}

\* The key holds an id that one of the two runs wrote under it.
WrittenByARun(key) ==
    \E w \in WritesOfBothRuns :
        w[1] = key /\ w[2].k = map[key].k /\ w[2].n = map[key].n

\* Every key written by a run is in the catalog, with an id a run wrote.
NothingLostOrInvented ==
    /\ \A w \in WritesOfBothRuns : w[1] \in DOMAIN map
    /\ \A key \in DOMAIN map : WrittenByARun(key)

\* C20: when a manual hydration and a scheduled one were in flight at the same
\* time and both have ended, the catalog is the one they leave when run one
\* after the other, in one order or the other; no written key is missing and
\* each key holds an id that one of the two runs wrote.
C20_ConcurrentHydrationSerializable ==
    BothEndedOverlapped =>
        /\ \/ SameMap(map, OneAfterTheOther(hObs.manual, hObs.tick))
           \/ SameMap(map, OneAfterTheOther(hObs.tick, hObs.manual))
        /\ NothingLostOrInvented

(***************************************************************************)
(* The parameters the signature covers                                     *)
(***************************************************************************)

\* The request was quoted: the quote API was called for it, or it was
\* answered from the quote cache.
Quoted(r) == r.calls > 0 \/ (r.pc = "responded" /\ r.cached)

\* The values the handler quoted on are the ones of req.query, the parameters
\* verifyShopifyProxy was given.
ReadFromVerifiedParameters(r) ==
    /\ r.cep = cepOf(r.req.query)
    /\ r.skus = skusArrOf(r.req.query)
    /\ r.qtys = qtyArrOf(r.req.query)
    /\ r.total.k = totalOf(r.req.query).k
    /\ r.total.n = totalOf(r.req.query).n

\* C21: a request that passed the signature check and was quoted was quoted
\* on the postal code, the item codes, the quantities and the total of the
\* parameters the signature was verified over.
C21_QuotedOnVerifiedParameters ==
    \A r \in Handled :
        (r.verify = "passed" /\ Quoted(r)) => ReadFromVerifiedParameters(r)

(***************************************************************************)
(* Stopping the refresh and starting it again                              *)
(***************************************************************************)

\* skuMap.startAutoRefresh() is called again; a stopAutoRefresh() called
\* before it is no longer the last word, so `stopped` is reset here: in
\* SpecStop it says that stopAutoRefresh() was called and startAutoRefresh()
\* was not called since.
StartAgain ==
    /\ BootDone
    /\ FreeTimers(timers) # {}
    /\ timer' = startAutoRefresh(timer, timers).timer
    /\ timers' = startAutoRefresh(timer, timers).timers
    /\ stopped' = FALSE
    /\ op' = OpOf("start", "none", "returned", FALSE, <<>>, 0)
    /\ UNCHANGED <<map, runs, boot, hObs>>
    /\ UNCHANGED <<verifyVars, lookupVars, keyVars, oauthVars, pipeVars>>

\* The catalog from its construction, with the operations that set, fire and
\* cancel the refresh timer.
NextStop ==
    \/ Bootstrap
    \/ BootPage
    \/ \E id \in TimerIds : Fire(id)
    \/ \E id \in TimerIds : TickPage(id)
    \/ StartAgain
    \/ StopAutoRefresh

SpecStop == InitCatalog /\ [][NextStop]_vars

\* While stopAutoRefresh() is the last of the two calls, no step starts a
\* scheduled hydration and no step sets a timer.
NothingScheduledWhileStopped ==
    (stopped /\ op'.name # "start") =>
        /\ op'.name # "fire"
        /\ PendingTimers' \subseteq PendingTimers

\* startAutoRefresh() called after stopAutoRefresh() leaves a timer pending,
\* or the scheduled hydration in flight that will set it.
StartAfterStopArms ==
    (stopped /\ op'.name = "start") =>
        (PendingTimers' # {} \/ TicksInFlight(runs') # {})

\* C23: once stopAutoRefresh() has returned, no scheduled hydration starts and
\* no timer is set until startAutoRefresh() is called again, also when a
\* scheduled hydration was in flight at the stop; and startAutoRefresh()
\* called after a stop arms the schedule again.
C23_StopEffectiveStartRearms ==
    [][NothingScheduledWhileStopped /\ StartAfterStopArms]_vars

(***************************************************************************)
(* The installation flow                                                   *)
(***************************************************************************)

ShopA == <<"a">> \o MYSHOPIFY

ShopUpperA == <<"A">> \o MYSHOPIFY

NotAShop == <<"a", ".", "c", "o", "m">>

InstallQueries == {SHOP :> Str(ShopA), SHOP :> Str(ShopUpperA), SHOP :> Str(NotAShop), <<>>}

\* The query the platform redirects to the callback with: signed over all its
\* parameters.
OAuthSigned(q) == q @@ (HMAC :> Hmac(SHOPIFY_API_SECRET, OAuthMessage(q)))

CallbackParams ==
    {(SHOP :> Str(ShopA)) @@ (CODE :> Str(<<"c">>)) @@ (STATE_PARAM :> Str(st)) : st \in StateValues}
        \cup {(SHOP :> Str(ShopA)) @@ (CODE :> Str(<<"c">>)),
              (SHOP :> Str(ShopA)) @@ (STATE_PARAM :> Str(randomState(0)))}

CallbackQueries ==
    {OAuthSigned(q) : q \in CallbackParams}
        \cup {q @@ (HMAC :> Hmac("k2", OAuthMessage(q))) : q \in CallbackParams}

TokenOutcomes == {"ok", "notOk", "throws"}

InitOAuth ==
    /\ OAuthOff
    /\ VerifyOff
    /\ LookupOff
    /\ KeyOff
    /\ CatalogNew
    /\ PipeOff

\* GET /install
Install ==
    /\ issued < MaxStates
    /\ \E query \in InstallQueries :
          LET r == install(states, issued, query)
          IN /\ states' = r.states
             /\ issued' = r.issued
             /\ oauthOp' = r.res
    /\ UNCHANGED <<callbacks, redirects>>
    /\ UNCHANGED <<verifyVars, lookupVars, keyVars, catalogVars, pipeVars>>

\* GET /auth/callback arrives and the handler runs to its response or to
\* `await fetch(...)`.
Callback ==
    /\ \E query \in CallbackQueries :
          LET r == callbackFront(states, query, SHOPIFY_API_SECRET)
          IN /\ oauthOp' = r.res
             /\ IF r.cb.pc = "awaiting"
                THEN \E i \in CallbackSlots :
                        /\ callbacks[i].pc = "none"
                        /\ \A j \in CallbackSlots : j < i => callbacks[j].pc # "none"
                        /\ callbacks' = [callbacks EXCEPT ![i] = r.cb]
                ELSE UNCHANGED callbacks
    /\ UNCHANGED <<states, issued, redirects>>
    /\ UNCHANGED <<verifyVars, lookupVars, keyVars, catalogVars, pipeVars>>

\* The token exchange of a suspended callback returns or throws, and the
\* handler runs to its response.
TokenReturn ==
    /\ \E i \in CallbackSlots : \E outcome \in TokenOutcomes :
          /\ callbacks[i].pc = "awaiting"
          /\ LET r == callbackResume(states, callbacks[i], outcome)
             IN /\ states' = r.states
                /\ oauthOp' = r.res
                /\ redirects' = IF r.res.status = 302
                                THEN [redirects EXCEPT ![callbacks[i].state] = @ + 1]
                                ELSE redirects
          /\ callbacks' = [callbacks EXCEPT ![i] = NoCallback]
    /\ UNCHANGED issued
    /\ UNCHANGED <<verifyVars, lookupVars, keyVars, catalogVars, pipeVars>>

NextOAuth ==
    \/ Install
    \/ Callback
    \/ TokenReturn

SpecOAuth == InitOAuth /\ [][NextOAuth]_vars

\* The callback that just passed the state check carries the state issued
\* last.
AcceptedStateIsLatest ==
    (oauthOp.name = "callback" /\ oauthOp.status = 0) =>
        (issued > 0 /\ oauthOp.state = randomState(issued - 1))

\* C22: a callback passes the state check only with the state issued last for
\* its shop, and no state ends more than one callback in the redirect to the
\* app, also when two callbacks with the same state are suspended at the
\* token exchange together.
C22_StateSingleUse ==
    /\ AcceptedStateIsLatest
    /\ \A st \in StateValues : redirects[st] <= 1

====
